---- MODULE Spec2Model ----
(***************************************************************************)
(* Single-precision GEMM kernel family (src/src/gemm.cpp): the reference   *)
(* kernel Origin, the optimized kernels Optimize1..Optimize16, the         *)
(* parameter validator CheckParam and the checker CheckResult.             *)
(*                                                                         *)
(* Matrix elements are integers.  The inputs are small integers, on which  *)
(* float multiplication, addition and fused multiply-add are exact, so a   *)
(* kernel's float result on these inputs is the integer result computed    *)
(* here.  A Matrix is a non-owning view [data, h, w]; data is a pointer:   *)
(* NULL or the index of a buffer in the heap mem.  A buffer is a function  *)
(* from 0..n-1 to its elements.                                            *)
(***************************************************************************)
EXTENDS Integers, Sequences, FiniteSets, TLC

\* Largest height/width of the generated valid triples.
MaxDim == 5
\* Largest height/width of the generated triples that mix in shape
\* mismatches and null buffers.
MaxBadDim == 2
\* Number of calls made on one output buffer.
MaxCalls == 2
\* largest height and width of the views handed to CheckResult on its own
MaxCheckDim == 2
\* largest --size given to the driver
MaxSize == 4

NULL == 0

VARIABLES
    ARM_NEON,   \* the build defines __ARM_NEON
    mem,        \* heap: mem[p] is the buffer at pointer p
    a, b, c,    \* the Matrix views passed to the kernels
    pre,        \* heap when the last call was entered
    last,       \* name of the last kernel called, "none" before any call
    ret,        \* what CheckParam returned in the last call
    log,        \* LOGE reports emitted by the last call
    trace,      \* element loads and stores of the last call, in program order
    ub,         \* the last call accessed an element outside its buffer
    calls,      \* number of calls made so far
    pc,         \* "ready", or "crashed" after undefined behaviour
    main,       \* the driver: loop index, selected tests, calls made, reports
    threads     \* the concurrent calls: kernel, output view, code, position, registers

vars == <<ARM_NEON, mem, a, b, c, pre, last, ret, log, trace, ub, calls, pc, main, threads>>

----------------------------------------------------------------------------
(* Matrix views *)

Matrix(data, h, w) == [data |-> data, h |-> h, w |-> w]

----------------------------------------------------------------------------
(* Memory accesses of a running kernel.  A run record r carries the heap,  *)
(* the access trace, the out-of-bounds flag and the stores made outside a  *)
(* buffer, as pairs of the pointer overrun and the value stored.  The test *)
(* r.oob \in BOOLEAN is always true: it makes the evaluation finish the    *)
(* statements before r first, as the program does.                         *)

Abs(x) == IF x < 0 THEN -x ELSE x

InBuf(m, p, idx) == p # NULL /\ idx \in DOMAIN m[p]

\* value of the expression p[idx]
Rd(r, p, idx) == IF InBuf(r.mem, p, idx) THEN r.mem[p][idx] ELSE 0

\* the load p[idx] as an event
Touch(r, p, idx) ==
    IF r.oob \in BOOLEAN
    THEN [r EXCEPT !.tr = Append(@, <<"ld", p, idx>>),
                   !.oob = @ \/ ~InBuf(r.mem, p, idx)]
    ELSE r

\* the store p[idx] = v
Wr(r, p, idx, v) ==
    IF r.oob \in BOOLEAN
    THEN [mem |-> IF InBuf(r.mem, p, idx) THEN [r.mem EXCEPT ![p][idx] = v] ELSE r.mem,
          tr |-> Append(r.tr, <<"st", p, idx>>),
          oob |-> r.oob \/ ~InBuf(r.mem, p, idx),
          stray |-> IF InBuf(r.mem, p, idx) THEN r.stray ELSE r.stray \cup {<<p, v>>}]
    ELSE r

\* faulty variant of MulAdd: pC[ci] = a0 * pB[bi], the old value dropped
MulAddOverwrite(r, pC, ci, a0, pB, bi) ==
    IF r.oob \in BOOLEAN
    THEN Wr(Touch(Touch(r, pB, bi), pC, ci), pC, ci, a0 * Rd(r, pB, bi))
    ELSE r

\* the statement pC[ci] += a0 * pB[bi]
MulAdd(r, pC, ci, a0, pB, bi) ==
    IF r.oob \in BOOLEAN
    THEN Wr(Touch(Touch(r, pB, bi), pC, ci), pC, ci, Rd(r, pC, ci) + a0 * Rd(r, pB, bi))
    ELSE r

\* faulty variant of AndNot3: x & 3, the complement forgotten
AndNot3Low(x) == x % 4

\* x & ~3 on a 32-bit int
AndNot3(x) == x - (x % 4)

\* four statements in program order, each taking the run before it to the
\* run after it
Stmts4(r, S0(_), S1(_), S2(_), S3(_)) ==
    LET r0 == S0(r)
        r1 == S1(r0)
        r2 == S2(r1)
    IN IF /\ r.oob \in BOOLEAN
          /\ r0.oob \in BOOLEAN
          /\ r1.oob \in BOOLEAN
          /\ r2.oob \in BOOLEAN
       THEN S3(r2)
       ELSE r

\* for (v = lo; v < hi; v += step) r = Body(r, v)
RECURSIVE For(_, _, _, _, _)
For(lo, hi, step, Body(_, _), r) ==
    IF r.oob \in BOOLEAN /\ lo < hi
    THEN For(lo + step, hi, step, Body, Body(r, lo))
    ELSE r

\* the value of the loop variable when that loop exits
RECURSIVE After(_, _, _)
After(lo, hi, step) == IF lo < hi THEN After(lo + step, hi, step) ELSE lo

----------------------------------------------------------------------------
(* GeMM::CheckParam *)

\* faulty variant of CheckParam: the comparison of b.w with c.w missing
CheckParamNoWidth(A, B, C) ==
    IF A.w # B.h THEN
        [ret |-> FALSE, log |-> << <<"A.w != B.h", A.w, B.h>> >>]
    ELSE IF A.h # C.h THEN
        [ret |-> FALSE, log |-> << <<"C.h != A.h", C.h, A.h>> >>]
    ELSE IF A.data = NULL \/ B.data = NULL \/ C.data = NULL THEN
        [ret |-> FALSE, log |-> << <<"null", A.data, B.data, C.data>> >>]
    ELSE
        [ret |-> TRUE, log |-> << >>]

\* faulty variant of CheckParam: the null test fails only when all three
\* buffers are null
CheckParamAllNull(A, B, C) ==
    IF A.w # B.h THEN
        [ret |-> FALSE, log |-> << <<"A.w != B.h", A.w, B.h>> >>]
    ELSE IF A.h # C.h THEN
        [ret |-> FALSE, log |-> << <<"C.h != A.h", C.h, A.h>> >>]
    ELSE IF B.w # C.w THEN
        [ret |-> FALSE, log |-> << <<"C.w != B.w", C.w, B.w>> >>]
    ELSE IF A.data = NULL /\ B.data = NULL /\ C.data = NULL THEN
        [ret |-> FALSE, log |-> << <<"null", A.data, B.data, C.data>> >>]
    ELSE
        [ret |-> TRUE, log |-> << >>]

\* faulty variant of CheckParam: the heights compared before a.w and b.h
CheckParamHeightFirst(A, B, C) ==
    IF A.h # C.h THEN
        [ret |-> FALSE, log |-> << <<"C.h != A.h", C.h, A.h>> >>]
    ELSE IF A.w # B.h THEN
        [ret |-> FALSE, log |-> << <<"A.w != B.h", A.w, B.h>> >>]
    ELSE IF B.w # C.w THEN
        [ret |-> FALSE, log |-> << <<"C.w != B.w", C.w, B.w>> >>]
    ELSE IF A.data = NULL \/ B.data = NULL \/ C.data = NULL THEN
        [ret |-> FALSE, log |-> << <<"null", A.data, B.data, C.data>> >>]
    ELSE
        [ret |-> TRUE, log |-> << >>]

CheckParam(A, B, C) ==
    IF A.w # B.h THEN
        [ret |-> FALSE, log |-> << <<"A.w != B.h", A.w, B.h>> >>]
    ELSE IF A.h # C.h THEN
        [ret |-> FALSE, log |-> << <<"C.h != A.h", C.h, A.h>> >>]
    ELSE IF B.w # C.w THEN
        [ret |-> FALSE, log |-> << <<"C.w != B.w", C.w, B.w>> >>]
    ELSE IF A.data = NULL \/ B.data = NULL \/ C.data = NULL THEN
        [ret |-> FALSE, log |-> << <<"null", A.data, B.data, C.data>> >>]
    ELSE
        [ret |-> TRUE, log |-> << >>]

\* the early return of a kernel whose CheckParam failed
Reject(m, chk) ==
    [mem |-> m, tr |-> << >>, oob |-> FALSE, stray |-> {}, ret |-> FALSE, log |-> chk.log]

\* the run record on entry to the timed block of a kernel
Enter(m) == [mem |-> m, tr |-> << >>, oob |-> FALSE, stray |-> {}]

\* the normal return of a kernel
Return(r) ==
    [mem |-> r.mem, tr |-> r.tr, oob |-> r.oob, stray |-> r.stray, ret |-> TRUE, log |-> << >>]

----------------------------------------------------------------------------
(* GeMM::CheckResult.  EPSILON is 1e-5 = 1 / EPSILON_INV. *)

EPSILON_INV == 100000

\* faulty variants of Exceeds: std::abs(x) - y > EPSILON, and
\* std::abs(x - y) >= EPSILON
ExceedsMisplacedAbs(x, y, unit) == (Abs(x) - y) * EPSILON_INV > unit

ExceedsOrEqual(x, y, unit) == Abs(x - y) * EPSILON_INV >= unit

\* std::abs(x - y) > EPSILON, for elements counted in units of 1 / unit
Exceeds(x, y, unit) == Abs(x - y) * EPSILON_INV > unit

\* the j loop of row i of CheckResult from column j on; r is the run so far:
\* what is returned, the report, and the element loads in program order.
\* Once an element pair differs the function has returned false.
RECURSIVE CheckRow(_, _, _, _, _, _, _)
CheckRow(X, Y, m, unit, i, j, r) ==
    IF ~r.ret \/ j >= X.w THEN r
    ELSE CheckRow(X, Y, m, unit, i, j + 1,
            [ret |-> ~Exceeds(m[X.data][i * X.w + j], m[Y.data][i * X.w + j], unit),
             log |-> IF Exceeds(m[X.data][i * X.w + j], m[Y.data][i * X.w + j], unit)
                     THEN << <<"A[i][j] != B[i][j]", i, j,
                               m[X.data][i * X.w + j], m[Y.data][i * X.w + j]>> >>
                     ELSE << >>,
             tr  |-> r.tr \o << <<"ld", X.data, i * X.w + j>>, <<"ld", Y.data, i * X.w + j>> >>])

\* the i loop of CheckResult from row i on
RECURSIVE CheckResultFrom(_, _, _, _, _, _)
CheckResultFrom(X, Y, m, unit, i, r) ==
    IF ~r.ret \/ i >= X.h THEN r
    ELSE CheckResultFrom(X, Y, m, unit, i + 1, CheckRow(X, Y, m, unit, i, 0, r))

\* faulty variant of CheckResultScaled: the heights compared before the widths
CheckResultHeightFirst(X, Y, m, unit) ==
    IF X.h # Y.h THEN
        [ret |-> FALSE, log |-> << <<"A.h != B.h", X.h, Y.h>> >>, tr |-> << >>]
    ELSE IF X.w # Y.w THEN
        [ret |-> FALSE, log |-> << <<"A.w != B.w", X.w, Y.w>> >>, tr |-> << >>]
    ELSE IF X.data = NULL \/ Y.data = NULL THEN
        [ret |-> FALSE, log |-> << <<"null", X.data, Y.data>> >>, tr |-> << >>]
    ELSE CheckResultFrom(X, Y, m, unit, 0, [ret |-> TRUE, log |-> << >>, tr |-> << >>])

\* CheckResult on a heap whose elements are counted in units of 1 / unit
CheckResultScaled(X, Y, m, unit) ==
    IF X.w # Y.w THEN
        [ret |-> FALSE, log |-> << <<"A.w != B.w", X.w, Y.w>> >>, tr |-> << >>]
    ELSE IF X.h # Y.h THEN
        [ret |-> FALSE, log |-> << <<"A.h != B.h", X.h, Y.h>> >>, tr |-> << >>]
    ELSE IF X.data = NULL \/ Y.data = NULL THEN
        [ret |-> FALSE, log |-> << <<"null", X.data, Y.data>> >>, tr |-> << >>]
    ELSE CheckResultFrom(X, Y, m, unit, 0, [ret |-> TRUE, log |-> << >>, tr |-> << >>])

\* CheckResult on a heap of whole numbers
CheckResult(X, Y, m) == CheckResultScaled(X, Y, m, 1)

----------------------------------------------------------------------------
(* GeMM::Origin: loop ijk *)

\* faulty variant of Origin: the k loop starts at 1
OriginFromOne(A, B, C, m) ==
    LET chk == CheckParam(A, B, C)
        pA == A.data
        pB == B.data
        pC == C.data
        LoopI(ri, i) ==
            LET LoopJ(rj, j) ==
                    LET LoopK(rk, k) ==
                            MulAdd(Touch(rk, pA, i * A.w + k), pC, i * C.w + j,
                                   Rd(rk, pA, i * A.w + k), pB, k * B.w + j)
                    IN For(1, A.w, 1, LoopK, rj)
            IN For(0, B.w, 1, LoopJ, ri)
    IN IF ~chk.ret THEN Reject(m, chk)
       ELSE Return(For(0, A.h, 1, LoopI, Enter(m)))

Origin(A, B, C, m) ==
    LET chk == CheckParam(A, B, C)
        pA == A.data
        pB == B.data
        pC == C.data
        LoopI(ri, i) ==
            LET LoopJ(rj, j) ==
                    LET LoopK(rk, k) ==
                            MulAdd(Touch(rk, pA, i * A.w + k), pC, i * C.w + j,
                                   Rd(rk, pA, i * A.w + k), pB, k * B.w + j)
                    IN For(0, A.w, 1, LoopK, rj)
            IN For(0, B.w, 1, LoopJ, ri)
    IN IF ~chk.ret THEN Reject(m, chk)
       ELSE Return(For(0, A.h, 1, LoopI, Enter(m)))

----------------------------------------------------------------------------
(* GeMM::Optimize1: loop ikj *)

Optimize1(A, B, C, m) ==
    LET chk == CheckParam(A, B, C)
        pA == A.data
        pB == B.data
        pC == C.data
        LoopI(ri, i) ==
            LET LoopK(rk, k) ==
                    LET a0 == Rd(rk, pA, i * A.w + k)
                        LoopJ(rj, j) == MulAdd(rj, pC, i * C.w + j, a0, pB, k * B.w + j)
                    IN For(0, B.w, 1, LoopJ, Touch(rk, pA, i * A.w + k))
            IN For(0, A.w, 1, LoopK, ri)
    IN IF ~chk.ret THEN Reject(m, chk)
       ELSE Return(For(0, A.h, 1, LoopI, Enter(m)))

(* GeMM::Optimize2: loop kij *)

\* faulty variant of Optimize2: the multiplier is read at the transposed
\* index k * a.w + i
Optimize2Transposed(A, B, C, m) ==
    LET chk == CheckParam(A, B, C)
        pA == A.data
        pB == B.data
        pC == C.data
        LoopK(rk, k) ==
            LET LoopI(ri, i) ==
                    LET a0 == Rd(ri, pA, k * A.w + i)
                        LoopJ(rj, j) == MulAdd(rj, pC, i * C.w + j, a0, pB, k * B.w + j)
                    IN For(0, B.w, 1, LoopJ, Touch(ri, pA, k * A.w + i))
            IN For(0, A.h, 1, LoopI, rk)
    IN IF ~chk.ret THEN Reject(m, chk)
       ELSE Return(For(0, A.w, 1, LoopK, Enter(m)))

\* faulty variant of Optimize2: the loops nested i, k, j as in Optimize1
Optimize2AsIkj(A, B, C, m) == Optimize1(A, B, C, m)

Optimize2(A, B, C, m) ==
    LET chk == CheckParam(A, B, C)
        pA == A.data
        pB == B.data
        pC == C.data
        LoopK(rk, k) ==
            LET LoopI(ri, i) ==
                    LET a0 == Rd(ri, pA, i * A.w + k)
                        LoopJ(rj, j) == MulAdd(rj, pC, i * C.w + j, a0, pB, k * B.w + j)
                    IN For(0, B.w, 1, LoopJ, Touch(ri, pA, i * A.w + k))
            IN For(0, A.h, 1, LoopI, rk)
    IN IF ~chk.ret THEN Reject(m, chk)
       ELSE Return(For(0, A.w, 1, LoopK, Enter(m)))

----------------------------------------------------------------------------
(* GeMM::Optimize3: loop ikj, unroll j *)

Optimize3(A, B, C, m) ==
    LET chk == CheckParam(A, B, C)
        pA == A.data
        pB == B.data
        pC == C.data
        LoopI(ri, i) ==
            LET LoopK(rk, k) ==
                    LET a0 == Rd(rk, pA, i * A.w + k)
                        LoopJ4(rj, j) ==
                            LET s0(r) == MulAdd(r, pC, i * C.w + j, a0, pB, k * B.w + j)
                                s1(r) == MulAdd(r, pC, i * C.w + j + 1, a0, pB, k * B.w + j + 1)
                                s2(r) == MulAdd(r, pC, i * C.w + j + 2, a0, pB, k * B.w + j + 2)
                                s3(r) == MulAdd(r, pC, i * C.w + j + 3, a0, pB, k * B.w + j + 3)
                            IN Stmts4(rj, s0, s1, s2, s3)
                        LoopJ(rj, j) == MulAdd(rj, pC, i * C.w + j, a0, pB, k * B.w + j)
                        r4 == For(0, AndNot3(B.w), 4, LoopJ4, Touch(rk, pA, i * A.w + k))
                    IN For(After(0, AndNot3(B.w), 4), B.w, 1, LoopJ, r4)
            IN For(0, A.w, 1, LoopK, ri)
    IN IF ~chk.ret THEN Reject(m, chk)
       ELSE Return(For(0, A.h, 1, LoopI, Enter(m)))

(* GeMM::Optimize4: loop kij, unroll j *)

Optimize4(A, B, C, m) ==
    LET chk == CheckParam(A, B, C)
        pA == A.data
        pB == B.data
        pC == C.data
        LoopK(rk, k) ==
            LET LoopI(ri, i) ==
                    LET a0 == Rd(ri, pA, i * A.w + k)
                        LoopJ4(rj, j) ==
                            LET s0(r) == MulAdd(r, pC, i * C.w + j, a0, pB, k * B.w + j)
                                s1(r) == MulAdd(r, pC, i * C.w + j + 1, a0, pB, k * B.w + j + 1)
                                s2(r) == MulAdd(r, pC, i * C.w + j + 2, a0, pB, k * B.w + j + 2)
                                s3(r) == MulAdd(r, pC, i * C.w + j + 3, a0, pB, k * B.w + j + 3)
                            IN Stmts4(rj, s0, s1, s2, s3)
                        LoopJ(rj, j) == MulAdd(rj, pC, i * C.w + j, a0, pB, k * B.w + j)
                        r4 == For(0, AndNot3(B.w), 4, LoopJ4, Touch(ri, pA, i * A.w + k))
                    IN For(After(0, AndNot3(B.w), 4), B.w, 1, LoopJ, r4)
            IN For(0, A.h, 1, LoopI, rk)
    IN IF ~chk.ret THEN Reject(m, chk)
       ELSE Return(For(0, A.w, 1, LoopK, Enter(m)))

----------------------------------------------------------------------------
(* NEON intrinsics on float32x4_t, a function from lanes 0..3 to elements *)

Lanes == 0 .. 3

\* value of vld1q_f32(p + idx)
vld1q_f32(r, p, idx) == [l \in Lanes |-> Rd(r, p, idx + l)]

\* the four consecutive loads p[idx] .. p[idx + 3] as events
TouchQ(r, p, idx) ==
    IF r.oob \in BOOLEAN
    THEN Touch(Touch(Touch(Touch(r, p, idx), p, idx + 1), p, idx + 2), p, idx + 3)
    ELSE r

\* vst1q_f32(p + idx, v)
vst1q_f32(r, p, idx, v) ==
    IF r.oob \in BOOLEAN
    THEN Wr(Wr(Wr(Wr(r, p, idx, v[0]), p, idx + 1, v[1]), p, idx + 2, v[2]), p, idx + 3, v[3])
    ELSE r

vdupq_n_f32(x) == [l \in Lanes |-> x]

vdupq_laneq_f32(v, lane) == [l \in Lanes |-> v[lane]]

\* faulty variant of vfmaq_f32: every lane multiplies by lane 0 of vb
vfmaq_f32Lane0(vc, va, vb) == [l \in Lanes |-> vc[l] + va[l] * vb[0]]

vfmaq_f32(vc, va, vb) == [l \in Lanes |-> vc[l] + va[l] * vb[l]]

\* faulty variant of vfmaq_laneq_f32: the lane argument ignored, lane 0 used
vfmaq_laneq_f32Lane0(vc, vb, va, lane) == [l \in Lanes |-> vc[l] + vb[l] * va[0]]

vfmaq_laneq_f32(vc, vb, va, lane) == [l \in Lanes |-> vc[l] + vb[l] * va[lane]]

----------------------------------------------------------------------------
(* GeMM::Optimize5: loop ikj, simd j *)

\* faulty variant of Optimize5: the scalar j loop starts at b.w & ~3 in
\* every build, also where the vector loop before it is compiled out
Optimize5ScalarFromTail(A, B, C, m) ==
    LET chk == CheckParam(A, B, C)
        pA == A.data
        pB == B.data
        pC == C.data
        LoopI(ri, i) ==
            LET LoopK(rk, k) ==
                    LET a0 == Rd(rk, pA, i * A.w + k)
                        vA0 == vdupq_n_f32(a0)
                        LoopJ4(rj, j) ==
                            LET vB == vld1q_f32(rj, pB, k * B.w + j)
                                vC == vld1q_f32(rj, pC, i * C.w + j)
                                rl == TouchQ(TouchQ(rj, pB, k * B.w + j), pC, i * C.w + j)
                            IN vst1q_f32(rl, pC, i * C.w + j, vfmaq_f32(vC, vA0, vB))
                        LoopJ(rj, j) == MulAdd(rj, pC, i * C.w + j, a0, pB, k * B.w + j)
                        r0 == Touch(rk, pA, i * A.w + k)
                        r4 == IF ARM_NEON THEN For(0, AndNot3(B.w), 4, LoopJ4, r0) ELSE r0
                    IN For(After(0, AndNot3(B.w), 4), B.w, 1, LoopJ, r4)
            IN For(0, A.w, 1, LoopK, ri)
    IN IF ~chk.ret THEN Reject(m, chk)
       ELSE Return(For(0, A.h, 1, LoopI, Enter(m)))

Optimize5(A, B, C, m) ==
    LET chk == CheckParam(A, B, C)
        pA == A.data
        pB == B.data
        pC == C.data
        LoopI(ri, i) ==
            LET LoopK(rk, k) ==
                    LET a0 == Rd(rk, pA, i * A.w + k)
                        vA0 == vdupq_n_f32(a0)
                        LoopJ4(rj, j) ==
                            LET vB == vld1q_f32(rj, pB, k * B.w + j)
                                vC == vld1q_f32(rj, pC, i * C.w + j)
                                rl == TouchQ(TouchQ(rj, pB, k * B.w + j), pC, i * C.w + j)
                            IN vst1q_f32(rl, pC, i * C.w + j, vfmaq_f32(vC, vA0, vB))
                        LoopJ(rj, j) == MulAdd(rj, pC, i * C.w + j, a0, pB, k * B.w + j)
                        r0 == Touch(rk, pA, i * A.w + k)
                        r4 == IF ARM_NEON THEN For(0, AndNot3(B.w), 4, LoopJ4, r0) ELSE r0
                        j4 == IF ARM_NEON THEN After(0, AndNot3(B.w), 4) ELSE 0
                    IN For(j4, B.w, 1, LoopJ, r4)
            IN For(0, A.w, 1, LoopK, ri)
    IN IF ~chk.ret THEN Reject(m, chk)
       ELSE Return(For(0, A.h, 1, LoopI, Enter(m)))

(* GeMM::Optimize6: loop kij, simd j *)

Optimize6(A, B, C, m) ==
    LET chk == CheckParam(A, B, C)
        pA == A.data
        pB == B.data
        pC == C.data
        LoopK(rk, k) ==
            LET LoopI(ri, i) ==
                    LET a0 == Rd(ri, pA, i * A.w + k)
                        vA0 == vdupq_n_f32(a0)
                        LoopJ4(rj, j) ==
                            LET vB == vld1q_f32(rj, pB, k * B.w + j)
                                vC == vld1q_f32(rj, pC, i * C.w + j)
                                rl == TouchQ(TouchQ(rj, pB, k * B.w + j), pC, i * C.w + j)
                            IN vst1q_f32(rl, pC, i * C.w + j, vfmaq_f32(vC, vA0, vB))
                        LoopJ(rj, j) == MulAdd(rj, pC, i * C.w + j, a0, pB, k * B.w + j)
                        r0 == Touch(ri, pA, i * A.w + k)
                        r4 == IF ARM_NEON THEN For(0, AndNot3(B.w), 4, LoopJ4, r0) ELSE r0
                        j4 == IF ARM_NEON THEN After(0, AndNot3(B.w), 4) ELSE 0
                    IN For(j4, B.w, 1, LoopJ, r4)
            IN For(0, A.h, 1, LoopI, rk)
    IN IF ~chk.ret THEN Reject(m, chk)
       ELSE Return(For(0, A.w, 1, LoopK, Enter(m)))

----------------------------------------------------------------------------
(* GeMM::Optimize7: loop ikj, unroll kj *)

Optimize7(A, B, C, m) ==
    LET chk == CheckParam(A, B, C)
        pA == A.data
        pB == B.data
        pC == C.data
        LoopI(ri, i) ==
            LET LoopK4(rk, k) ==
                    LET a0 == Rd(rk, pA, i * A.w + k)
                        a1 == Rd(rk, pA, i * A.w + k + 1)
                        a2 == Rd(rk, pA, i * A.w + k + 2)
                        a3 == Rd(rk, pA, i * A.w + k + 3)
                        Col(rc, cj) ==
                            LET s0(r) == MulAdd(r, pC, i * C.w + cj, a0, pB, k * B.w + cj)
                                s1(r) == MulAdd(r, pC, i * C.w + cj, a1, pB, (k + 1) * B.w + cj)
                                s2(r) == MulAdd(r, pC, i * C.w + cj, a2, pB, (k + 2) * B.w + cj)
                                s3(r) == MulAdd(r, pC, i * C.w + cj, a3, pB, (k + 3) * B.w + cj)
                            IN Stmts4(rc, s0, s1, s2, s3)
                        LoopJ4(rj, j) ==
                            LET c0(r) == Col(r, j)
                                c1(r) == Col(r, j + 1)
                                c2(r) == Col(r, j + 2)
                                c3(r) == Col(r, j + 3)
                            IN Stmts4(rj, c0, c1, c2, c3)
                        LoopJ(rj, j) == Col(rj, j)
                        r4 == For(0, AndNot3(B.w), 4, LoopJ4, TouchQ(rk, pA, i * A.w + k))
                    IN For(After(0, AndNot3(B.w), 4), B.w, 1, LoopJ, r4)
                LoopK(rk, k) ==
                    LET a0 == Rd(rk, pA, i * A.w + k)
                        LoopJ4(rj, j) ==
                            LET s0(r) == MulAdd(r, pC, i * C.w + j, a0, pB, k * B.w + j)
                                s1(r) == MulAdd(r, pC, i * C.w + j + 1, a0, pB, k * B.w + j + 1)
                                s2(r) == MulAdd(r, pC, i * C.w + j + 2, a0, pB, k * B.w + j + 2)
                                s3(r) == MulAdd(r, pC, i * C.w + j + 3, a0, pB, k * B.w + j + 3)
                            IN Stmts4(rj, s0, s1, s2, s3)
                        LoopJ(rj, j) == MulAdd(rj, pC, i * C.w + j, a0, pB, k * B.w + j)
                        r4 == For(0, AndNot3(B.w), 4, LoopJ4, Touch(rk, pA, i * A.w + k))
                    IN For(After(0, AndNot3(B.w), 4), B.w, 1, LoopJ, r4)
                rk4 == For(0, AndNot3(A.w), 4, LoopK4, ri)
            IN For(After(0, AndNot3(A.w), 4), A.w, 1, LoopK, rk4)
    IN IF ~chk.ret THEN Reject(m, chk)
       ELSE Return(For(0, A.h, 1, LoopI, Enter(m)))

(* GeMM::Optimize8: loop kij, unroll kj *)

Optimize8(A, B, C, m) ==
    LET chk == CheckParam(A, B, C)
        pA == A.data
        pB == B.data
        pC == C.data
        LoopK4(rk, k) ==
            LET LoopI(ri, i) ==
                    LET a0 == Rd(ri, pA, i * A.w + k)
                        a1 == Rd(ri, pA, i * A.w + k + 1)
                        a2 == Rd(ri, pA, i * A.w + k + 2)
                        a3 == Rd(ri, pA, i * A.w + k + 3)
                        Col(rc, cj) ==
                            LET s0(r) == MulAdd(r, pC, i * C.w + cj, a0, pB, k * B.w + cj)
                                s1(r) == MulAdd(r, pC, i * C.w + cj, a1, pB, (k + 1) * B.w + cj)
                                s2(r) == MulAdd(r, pC, i * C.w + cj, a2, pB, (k + 2) * B.w + cj)
                                s3(r) == MulAdd(r, pC, i * C.w + cj, a3, pB, (k + 3) * B.w + cj)
                            IN Stmts4(rc, s0, s1, s2, s3)
                        LoopJ4(rj, j) ==
                            LET c0(r) == Col(r, j)
                                c1(r) == Col(r, j + 1)
                                c2(r) == Col(r, j + 2)
                                c3(r) == Col(r, j + 3)
                            IN Stmts4(rj, c0, c1, c2, c3)
                        LoopJ(rj, j) == Col(rj, j)
                        r4 == For(0, AndNot3(B.w), 4, LoopJ4, TouchQ(ri, pA, i * A.w + k))
                    IN For(After(0, AndNot3(B.w), 4), B.w, 1, LoopJ, r4)
            IN For(0, A.h, 1, LoopI, rk)
        LoopK(rk, k) ==
            LET LoopI(ri, i) ==
                    LET a0 == Rd(ri, pA, i * A.w + k)
                        LoopJ4(rj, j) ==
                            LET s0(r) == MulAdd(r, pC, i * C.w + j, a0, pB, k * B.w + j)
                                s1(r) == MulAdd(r, pC, i * C.w + j + 1, a0, pB, k * B.w + j + 1)
                                s2(r) == MulAdd(r, pC, i * C.w + j + 2, a0, pB, k * B.w + j + 2)
                                s3(r) == MulAdd(r, pC, i * C.w + j + 3, a0, pB, k * B.w + j + 3)
                            IN Stmts4(rj, s0, s1, s2, s3)
                        LoopJ(rj, j) == MulAdd(rj, pC, i * C.w + j, a0, pB, k * B.w + j)
                        r4 == For(0, AndNot3(B.w), 4, LoopJ4, Touch(ri, pA, i * A.w + k))
                    IN For(After(0, AndNot3(B.w), 4), B.w, 1, LoopJ, r4)
            IN For(0, A.h, 1, LoopI, rk)
        rk4 == For(0, AndNot3(A.w), 4, LoopK4, Enter(m))
    IN IF ~chk.ret THEN Reject(m, chk)
       ELSE Return(For(After(0, AndNot3(A.w), 4), A.w, 1, LoopK, rk4))

----------------------------------------------------------------------------
(* GeMM::Optimize9: loop ikj, simd kj *)

Optimize9(A, B, C, m) ==
    LET chk == CheckParam(A, B, C)
        pA == A.data
        pB == B.data
        pC == C.data
        LoopI(ri, i) ==
            LET LoopK4(rk, k) ==
                    LET a0 == Rd(rk, pA, i * A.w + k)
                        a1 == Rd(rk, pA, i * A.w + k + 1)
                        a2 == Rd(rk, pA, i * A.w + k + 2)
                        a3 == Rd(rk, pA, i * A.w + k + 3)
                        vA0 == vdupq_n_f32(a0)
                        vA1 == vdupq_n_f32(a1)
                        vA2 == vdupq_n_f32(a2)
                        vA3 == vdupq_n_f32(a3)
                        LoopJ4(rj, j) ==
                            LET vB0 == vld1q_f32(rj, pB, k * B.w + j)
                                vB1 == vld1q_f32(rj, pB, (k + 1) * B.w + j)
                                vB2 == vld1q_f32(rj, pB, (k + 2) * B.w + j)
                                vB3 == vld1q_f32(rj, pB, (k + 3) * B.w + j)
                                vC == vld1q_f32(rj, pC, i * C.w + j)
                                rl == TouchQ(TouchQ(TouchQ(TouchQ(TouchQ(rj,
                                        pB, k * B.w + j), pB, (k + 1) * B.w + j),
                                        pB, (k + 2) * B.w + j), pB, (k + 3) * B.w + j),
                                        pC, i * C.w + j)
                                vC0 == vfmaq_f32(vC, vA0, vB0)
                                vC1 == vfmaq_f32(vC0, vA1, vB1)
                                vC2 == vfmaq_f32(vC1, vA2, vB2)
                                vC3 == vfmaq_f32(vC2, vA3, vB3)
                            IN vst1q_f32(rl, pC, i * C.w + j, vC3)
                        LoopJ(rj, j) ==
                            LET s0(r) == MulAdd(r, pC, i * C.w + j, a0, pB, k * B.w + j)
                                s1(r) == MulAdd(r, pC, i * C.w + j, a1, pB, (k + 1) * B.w + j)
                                s2(r) == MulAdd(r, pC, i * C.w + j, a2, pB, (k + 2) * B.w + j)
                                s3(r) == MulAdd(r, pC, i * C.w + j, a3, pB, (k + 3) * B.w + j)
                            IN Stmts4(rj, s0, s1, s2, s3)
                        r0 == TouchQ(rk, pA, i * A.w + k)
                        r4 == IF ARM_NEON THEN For(0, AndNot3(B.w), 4, LoopJ4, r0) ELSE r0
                        j4 == IF ARM_NEON THEN After(0, AndNot3(B.w), 4) ELSE 0
                    IN For(j4, B.w, 1, LoopJ, r4)
                LoopK(rk, k) ==
                    LET a0 == Rd(rk, pA, i * A.w + k)
                        vA0 == vdupq_n_f32(a0)
                        LoopJ4(rj, j) ==
                            LET vB == vld1q_f32(rj, pB, k * B.w + j)
                                vC == vld1q_f32(rj, pC, i * C.w + j)
                                rl == TouchQ(TouchQ(rj, pB, k * B.w + j), pC, i * C.w + j)
                            IN vst1q_f32(rl, pC, i * C.w + j, vfmaq_f32(vC, vA0, vB))
                        LoopJ(rj, j) == MulAdd(rj, pC, i * C.w + j, a0, pB, k * B.w + j)
                        r0 == Touch(rk, pA, i * A.w + k)
                        r4 == IF ARM_NEON THEN For(0, AndNot3(B.w), 4, LoopJ4, r0) ELSE r0
                        j4 == IF ARM_NEON THEN After(0, AndNot3(B.w), 4) ELSE 0
                    IN For(j4, B.w, 1, LoopJ, r4)
                rk4 == For(0, AndNot3(A.w), 4, LoopK4, ri)
            IN For(After(0, AndNot3(A.w), 4), A.w, 1, LoopK, rk4)
    IN IF ~chk.ret THEN Reject(m, chk)
       ELSE Return(For(0, A.h, 1, LoopI, Enter(m)))

(* GeMM::Optimize10: loop kij, simd kj *)

Optimize10(A, B, C, m) ==
    LET chk == CheckParam(A, B, C)
        pA == A.data
        pB == B.data
        pC == C.data
        LoopK4(rk, k) ==
            LET LoopI(ri, i) ==
                    LET a0 == Rd(ri, pA, i * A.w + k)
                        a1 == Rd(ri, pA, i * A.w + k + 1)
                        a2 == Rd(ri, pA, i * A.w + k + 2)
                        a3 == Rd(ri, pA, i * A.w + k + 3)
                        vA0 == vdupq_n_f32(a0)
                        vA1 == vdupq_n_f32(a1)
                        vA2 == vdupq_n_f32(a2)
                        vA3 == vdupq_n_f32(a3)
                        LoopJ4(rj, j) ==
                            LET vB0 == vld1q_f32(rj, pB, k * B.w + j)
                                vB1 == vld1q_f32(rj, pB, (k + 1) * B.w + j)
                                vB2 == vld1q_f32(rj, pB, (k + 2) * B.w + j)
                                vB3 == vld1q_f32(rj, pB, (k + 3) * B.w + j)
                                vC == vld1q_f32(rj, pC, i * C.w + j)
                                rl == TouchQ(TouchQ(TouchQ(TouchQ(TouchQ(rj,
                                        pB, k * B.w + j), pB, (k + 1) * B.w + j),
                                        pB, (k + 2) * B.w + j), pB, (k + 3) * B.w + j),
                                        pC, i * C.w + j)
                                vC0 == vfmaq_f32(vC, vA0, vB0)
                                vC1 == vfmaq_f32(vC0, vA1, vB1)
                                vC2 == vfmaq_f32(vC1, vA2, vB2)
                                vC3 == vfmaq_f32(vC2, vA3, vB3)
                            IN vst1q_f32(rl, pC, i * C.w + j, vC3)
                        LoopJ(rj, j) ==
                            LET s0(r) == MulAdd(r, pC, i * C.w + j, a0, pB, k * B.w + j)
                                s1(r) == MulAdd(r, pC, i * C.w + j + 1, a1, pB, (k + 1) * B.w + j)
                                s2(r) == MulAdd(r, pC, i * C.w + j + 2, a2, pB, (k + 2) * B.w + j)
                                s3(r) == MulAdd(r, pC, i * C.w + j + 3, a3, pB, (k + 3) * B.w + j)
                            IN Stmts4(rj, s0, s1, s2, s3)
                        r0 == TouchQ(ri, pA, i * A.w + k)
                        r4 == IF ARM_NEON THEN For(0, AndNot3(B.w), 4, LoopJ4, r0) ELSE r0
                        j4 == IF ARM_NEON THEN After(0, AndNot3(B.w), 4) ELSE 0
                    IN For(j4, B.w, 1, LoopJ, r4)
            IN For(0, A.h, 1, LoopI, rk)
        LoopK(rk, k) ==
            LET LoopI(ri, i) ==
                    LET a0 == Rd(ri, pA, i * A.w + k)
                        vA == vdupq_n_f32(a0)
                        LoopJ4(rj, j) ==
                            LET vB == vld1q_f32(rj, pB, k * B.w + j)
                                vC == vld1q_f32(rj, pC, i * C.w + j)
                                rl == TouchQ(TouchQ(rj, pB, k * B.w + j), pC, i * C.w + j)
                            IN vst1q_f32(rl, pC, i * C.w + j, vfmaq_f32(vC, vA, vB))
                        LoopJ(rj, j) == MulAdd(rj, pC, i * C.w + j, a0, pB, k * B.w + j)
                        r0 == Touch(ri, pA, i * A.w + k)
                        r4 == IF ARM_NEON THEN For(0, AndNot3(B.w), 4, LoopJ4, r0) ELSE r0
                        j4 == IF ARM_NEON THEN After(0, AndNot3(B.w), 4) ELSE 0
                    IN For(j4, B.w, 1, LoopJ, r4)
            IN For(0, A.h, 1, LoopI, rk)
        rk4 == For(0, AndNot3(A.w), 4, LoopK4, Enter(m))
    IN IF ~chk.ret THEN Reject(m, chk)
       ELSE Return(For(After(0, AndNot3(A.w), 4), A.w, 1, LoopK, rk4))

----------------------------------------------------------------------------
(* GeMM::Optimize11: loop ikj, simd kj, align 4 kj *)

\* faulty variant of Optimize11: the scalar k and j tails of Optimize9 kept,
\* so the whole product is added
Optimize11WithTails(A, B, C, m) == Optimize9(A, B, C, m)

Optimize11(A, B, C, m) ==
    LET chk == CheckParam(A, B, C)
        pA == A.data
        pB == B.data
        pC == C.data
        LoopI(ri, i) ==
            LET LoopK(rk, k) ==
                    LET vA == vld1q_f32(rk, pA, i * A.w + k)
                        vA0 == vdupq_laneq_f32(vA, 0)
                        vA1 == vdupq_laneq_f32(vA, 1)
                        vA2 == vdupq_laneq_f32(vA, 2)
                        vA3 == vdupq_laneq_f32(vA, 3)
                        LoopJ(rj, j) ==
                            LET vB0 == vld1q_f32(rj, pB, k * B.w + j)
                                vB1 == vld1q_f32(rj, pB, (k + 1) * B.w + j)
                                vB2 == vld1q_f32(rj, pB, (k + 2) * B.w + j)
                                vB3 == vld1q_f32(rj, pB, (k + 3) * B.w + j)
                                vC == vld1q_f32(rj, pC, i * C.w + j)
                                rl == TouchQ(TouchQ(TouchQ(TouchQ(TouchQ(rj,
                                        pB, k * B.w + j), pB, (k + 1) * B.w + j),
                                        pB, (k + 2) * B.w + j), pB, (k + 3) * B.w + j),
                                        pC, i * C.w + j)
                                vC0 == vfmaq_f32(vC, vA0, vB0)
                                vC1 == vfmaq_f32(vC0, vA1, vB1)
                                vC2 == vfmaq_f32(vC1, vA2, vB2)
                                vC3 == vfmaq_f32(vC2, vA3, vB3)
                            IN vst1q_f32(rl, pC, i * C.w + j, vC3)
                    IN For(0, AndNot3(B.w), 4, LoopJ, TouchQ(rk, pA, i * A.w + k))
            IN For(0, AndNot3(A.w), 4, LoopK, ri)
    IN IF ~chk.ret THEN Reject(m, chk)
       ELSE IF ARM_NEON THEN Return(For(0, A.h, 1, LoopI, Enter(m)))
       ELSE Return(Enter(m))

(* GeMM::Optimize12: loop kij, simd kj, align 4 kj *)

Optimize12(A, B, C, m) ==
    LET chk == CheckParam(A, B, C)
        pA == A.data
        pB == B.data
        pC == C.data
        LoopK(rk, k) ==
            LET LoopI(ri, i) ==
                    LET vA == vld1q_f32(ri, pA, i * A.w + k)
                        vA0 == vdupq_laneq_f32(vA, 0)
                        vA1 == vdupq_laneq_f32(vA, 1)
                        vA2 == vdupq_laneq_f32(vA, 2)
                        vA3 == vdupq_laneq_f32(vA, 3)
                        LoopJ(rj, j) ==
                            LET vB0 == vld1q_f32(rj, pB, k * B.w + j)
                                vB1 == vld1q_f32(rj, pB, (k + 1) * B.w + j)
                                vB2 == vld1q_f32(rj, pB, (k + 2) * B.w + j)
                                vB3 == vld1q_f32(rj, pB, (k + 3) * B.w + j)
                                vC == vld1q_f32(rj, pC, i * C.w + j)
                                rl == TouchQ(TouchQ(TouchQ(TouchQ(TouchQ(rj,
                                        pB, k * B.w + j), pB, (k + 1) * B.w + j),
                                        pB, (k + 2) * B.w + j), pB, (k + 3) * B.w + j),
                                        pC, i * C.w + j)
                                vC0 == vfmaq_f32(vC, vA0, vB0)
                                vC1 == vfmaq_f32(vC0, vA1, vB1)
                                vC2 == vfmaq_f32(vC1, vA2, vB2)
                                vC3 == vfmaq_f32(vC2, vA3, vB3)
                            IN vst1q_f32(rl, pC, i * C.w + j, vC3)
                    IN For(0, AndNot3(B.w), 4, LoopJ, TouchQ(ri, pA, i * A.w + k))
            IN For(0, A.h, 1, LoopI, rk)
    IN IF ~chk.ret THEN Reject(m, chk)
       ELSE IF ARM_NEON THEN Return(For(0, AndNot3(A.w), 4, LoopK, Enter(m)))
       ELSE Return(Enter(m))

----------------------------------------------------------------------------
(* GeMM::Optimize13: loop ikj, simd kj, align 4 ikj *)

Optimize13(A, B, C, m) ==
    LET chk == CheckParam(A, B, C)
        pA == A.data
        pB == B.data
        pC == C.data
        LoopI(ri, i) ==
            LET LoopK(rk, k) ==
                    LET aIdx == i * A.w + k
                        vA0 == vld1q_f32(rk, pA, aIdx)
                        vA1 == vld1q_f32(rk, pA, aIdx + A.w)
                        vA2 == vld1q_f32(rk, pA, aIdx + A.w * 2)
                        vA3 == vld1q_f32(rk, pA, aIdx + A.w * 3)
                        ra == TouchQ(TouchQ(TouchQ(TouchQ(rk, pA, aIdx), pA, aIdx + A.w),
                                     pA, aIdx + A.w * 2), pA, aIdx + A.w * 3)
                        LoopJ(rj, j) ==
                            LET bIdx == k * B.w + j
                                vB0 == vld1q_f32(rj, pB, bIdx)
                                vB1 == vld1q_f32(rj, pB, bIdx + B.w)
                                vB2 == vld1q_f32(rj, pB, bIdx + B.w * 2)
                                vB3 == vld1q_f32(rj, pB, bIdx + B.w * 3)
                                rb == TouchQ(TouchQ(TouchQ(TouchQ(rj, pB, bIdx), pB, bIdx + B.w),
                                             pB, bIdx + B.w * 2), pB, bIdx + B.w * 3)
                                cIdx == i * C.w + j
                                vC0(r) == vfmaq_laneq_f32(vfmaq_laneq_f32(vfmaq_laneq_f32(vfmaq_laneq_f32(
                                           vld1q_f32(r, pC, cIdx),
                                           vB0, vA0, 0), vB1, vA0, 1), vB2, vA0, 2), vB3, vA0, 3)
                                s0(r) == vst1q_f32(TouchQ(r, pC, cIdx), pC, cIdx, vC0(r))
                                vC1(r) == vfmaq_laneq_f32(vfmaq_laneq_f32(vfmaq_laneq_f32(vfmaq_laneq_f32(
                                           vld1q_f32(r, pC, cIdx + C.w),
                                           vB0, vA1, 0), vB1, vA1, 1), vB2, vA1, 2), vB3, vA1, 3)
                                s1(r) == vst1q_f32(TouchQ(r, pC, cIdx + C.w), pC, cIdx + C.w, vC1(r))
                                vC2(r) == vfmaq_laneq_f32(vfmaq_laneq_f32(vfmaq_laneq_f32(vfmaq_laneq_f32(
                                           vld1q_f32(r, pC, cIdx + C.w * 2),
                                           vB0, vA2, 0), vB1, vA2, 1), vB2, vA2, 2), vB3, vA2, 3)
                                s2(r) == vst1q_f32(TouchQ(r, pC, cIdx + C.w * 2), pC, cIdx + C.w * 2, vC2(r))
                                vC3(r) == vfmaq_laneq_f32(vfmaq_laneq_f32(vfmaq_laneq_f32(vfmaq_laneq_f32(
                                           vld1q_f32(r, pC, cIdx + C.w * 3),
                                           vB0, vA3, 0), vB1, vA3, 1), vB2, vA3, 2), vB3, vA3, 3)
                                s3(r) == vst1q_f32(TouchQ(r, pC, cIdx + C.w * 3), pC, cIdx + C.w * 3, vC3(r))
                            IN Stmts4(rb, s0, s1, s2, s3)
                    IN For(0, AndNot3(B.w), 4, LoopJ, ra)
            IN For(0, AndNot3(A.w), 4, LoopK, ri)
    IN IF ~chk.ret THEN Reject(m, chk)
       ELSE IF ARM_NEON THEN Return(For(0, AndNot3(A.h), 4, LoopI, Enter(m)))
       ELSE Return(Enter(m))

(* GeMM::Optimize14: loop kij, simd kj, align 4 kij *)

Optimize14(A, B, C, m) ==
    LET chk == CheckParam(A, B, C)
        pA == A.data
        pB == B.data
        pC == C.data
        LoopK(rk, k) ==
            LET LoopI(ri, i) ==
                    LET aIdx == i * A.w + k
                        vA0 == vld1q_f32(ri, pA, aIdx)
                        vA1 == vld1q_f32(ri, pA, aIdx + A.w)
                        vA2 == vld1q_f32(ri, pA, aIdx + A.w * 2)
                        vA3 == vld1q_f32(ri, pA, aIdx + A.w * 3)
                        ra == TouchQ(TouchQ(TouchQ(TouchQ(ri, pA, aIdx), pA, aIdx + A.w),
                                     pA, aIdx + A.w * 2), pA, aIdx + A.w * 3)
                        LoopJ(rj, j) ==
                            LET bIdx == k * B.w + j
                                vB0 == vld1q_f32(rj, pB, bIdx)
                                vB1 == vld1q_f32(rj, pB, bIdx + B.w)
                                vB2 == vld1q_f32(rj, pB, bIdx + B.w * 2)
                                vB3 == vld1q_f32(rj, pB, bIdx + B.w * 3)
                                rb == TouchQ(TouchQ(TouchQ(TouchQ(rj, pB, bIdx), pB, bIdx + B.w),
                                             pB, bIdx + B.w * 2), pB, bIdx + B.w * 3)
                                cIdx == i * C.w + j
                                vC0(r) == vfmaq_laneq_f32(vfmaq_laneq_f32(vfmaq_laneq_f32(vfmaq_laneq_f32(
                                           vld1q_f32(r, pC, cIdx),
                                           vB0, vA0, 0), vB1, vA0, 1), vB2, vA0, 2), vB3, vA0, 3)
                                s0(r) == vst1q_f32(TouchQ(r, pC, cIdx), pC, cIdx, vC0(r))
                                vC1(r) == vfmaq_laneq_f32(vfmaq_laneq_f32(vfmaq_laneq_f32(vfmaq_laneq_f32(
                                           vld1q_f32(r, pC, cIdx + C.w),
                                           vB0, vA1, 0), vB1, vA1, 1), vB2, vA1, 2), vB3, vA1, 3)
                                s1(r) == vst1q_f32(TouchQ(r, pC, cIdx + C.w), pC, cIdx + C.w, vC1(r))
                                vC2(r) == vfmaq_laneq_f32(vfmaq_laneq_f32(vfmaq_laneq_f32(vfmaq_laneq_f32(
                                           vld1q_f32(r, pC, cIdx + C.w * 2),
                                           vB0, vA2, 0), vB1, vA2, 1), vB2, vA2, 2), vB3, vA2, 3)
                                s2(r) == vst1q_f32(TouchQ(r, pC, cIdx + C.w * 2), pC, cIdx + C.w * 2, vC2(r))
                                vC3(r) == vfmaq_laneq_f32(vfmaq_laneq_f32(vfmaq_laneq_f32(vfmaq_laneq_f32(
                                           vld1q_f32(r, pC, cIdx + C.w * 3),
                                           vB0, vA3, 0), vB1, vA3, 1), vB2, vA3, 2), vB3, vA3, 3)
                                s3(r) == vst1q_f32(TouchQ(r, pC, cIdx + C.w * 3), pC, cIdx + C.w * 3, vC3(r))
                            IN Stmts4(rb, s0, s1, s2, s3)
                    IN For(0, AndNot3(B.w), 4, LoopJ, ra)
            IN For(0, AndNot3(A.h), 4, LoopI, rk)
    IN IF ~chk.ret THEN Reject(m, chk)
       ELSE IF ARM_NEON THEN Return(For(0, AndNot3(A.w), 4, LoopK, Enter(m)))
       ELSE Return(Enter(m))

----------------------------------------------------------------------------
(* GeMM::Optimize15: loop ikj, simd kj, align 4 ikj, hoisted index arithmetic *)

\* faulty variant of Optimize15: the tiles visited k, i, j as in Optimize14
Optimize15AsKij(A, B, C, m) == Optimize14(A, B, C, m)

Optimize15(A, B, C, m) ==
    LET chk == CheckParam(A, B, C)
        pA == A.data
        pB == B.data
        pC == C.data
        aHAlign == AndNot3(A.h)
        aWAlign == AndNot3(A.w)
        bWAlign == AndNot3(B.w)
        LoopI(ri, i) ==
            LET aIdxBase == i * A.w
                cIdxBase == i * C.w
                LoopK(rk, k) ==
                    LET aIdx == aIdxBase + k
                        bIdxBase == k * B.w
                        vA0 == vld1q_f32(rk, pA, aIdx)
                        vA1 == vld1q_f32(rk, pA, aIdx + A.w)
                        vA2 == vld1q_f32(rk, pA, aIdx + A.w * 2)
                        vA3 == vld1q_f32(rk, pA, aIdx + A.w * 3)
                        ra == TouchQ(TouchQ(TouchQ(TouchQ(rk, pA, aIdx), pA, aIdx + A.w),
                                     pA, aIdx + A.w * 2), pA, aIdx + A.w * 3)
                        LoopJ(rj, j) ==
                            LET bIdx == bIdxBase + j
                                vB0 == vld1q_f32(rj, pB, bIdx)
                                vB1 == vld1q_f32(rj, pB, bIdx + B.w)
                                vB2 == vld1q_f32(rj, pB, bIdx + B.w * 2)
                                vB3 == vld1q_f32(rj, pB, bIdx + B.w * 3)
                                rb == TouchQ(TouchQ(TouchQ(TouchQ(rj, pB, bIdx), pB, bIdx + B.w),
                                             pB, bIdx + B.w * 2), pB, bIdx + B.w * 3)
                                cIdx == cIdxBase + j
                                vC0(r) == vfmaq_laneq_f32(vfmaq_laneq_f32(vfmaq_laneq_f32(vfmaq_laneq_f32(
                                           vld1q_f32(r, pC, cIdx),
                                           vB0, vA0, 0), vB1, vA0, 1), vB2, vA0, 2), vB3, vA0, 3)
                                s0(r) == vst1q_f32(TouchQ(r, pC, cIdx), pC, cIdx, vC0(r))
                                vC1(r) == vfmaq_laneq_f32(vfmaq_laneq_f32(vfmaq_laneq_f32(vfmaq_laneq_f32(
                                           vld1q_f32(r, pC, cIdx + C.w),
                                           vB0, vA1, 0), vB1, vA1, 1), vB2, vA1, 2), vB3, vA1, 3)
                                s1(r) == vst1q_f32(TouchQ(r, pC, cIdx + C.w), pC, cIdx + C.w, vC1(r))
                                vC2(r) == vfmaq_laneq_f32(vfmaq_laneq_f32(vfmaq_laneq_f32(vfmaq_laneq_f32(
                                           vld1q_f32(r, pC, cIdx + C.w * 2),
                                           vB0, vA2, 0), vB1, vA2, 1), vB2, vA2, 2), vB3, vA2, 3)
                                s2(r) == vst1q_f32(TouchQ(r, pC, cIdx + C.w * 2), pC, cIdx + C.w * 2, vC2(r))
                                vC3(r) == vfmaq_laneq_f32(vfmaq_laneq_f32(vfmaq_laneq_f32(vfmaq_laneq_f32(
                                           vld1q_f32(r, pC, cIdx + C.w * 3),
                                           vB0, vA3, 0), vB1, vA3, 1), vB2, vA3, 2), vB3, vA3, 3)
                                s3(r) == vst1q_f32(TouchQ(r, pC, cIdx + C.w * 3), pC, cIdx + C.w * 3, vC3(r))
                            IN Stmts4(rb, s0, s1, s2, s3)
                    IN For(0, bWAlign, 4, LoopJ, ra)
            IN For(0, aWAlign, 4, LoopK, ri)
    IN IF ~chk.ret THEN Reject(m, chk)
       ELSE IF ARM_NEON THEN Return(For(0, aHAlign, 4, LoopI, Enter(m)))
       ELSE Return(Enter(m))

(* GeMM::Optimize16: loop kij, simd kj, align 4 kij, hoisted index arithmetic *)

Optimize16(A, B, C, m) ==
    LET chk == CheckParam(A, B, C)
        pA == A.data
        pB == B.data
        pC == C.data
        aHAlign == AndNot3(A.h)
        aWAlign == AndNot3(A.w)
        bWAlign == AndNot3(B.w)
        LoopK(rk, k) ==
            LET bIdxBase == k * B.w
                LoopI(ri, i) ==
                    LET aIdxBase == i * A.w
                        cIdxBase == i * C.w
                        aIdx == aIdxBase + k
                        vA0 == vld1q_f32(ri, pA, aIdx)
                        vA1 == vld1q_f32(ri, pA, aIdx + A.w)
                        vA2 == vld1q_f32(ri, pA, aIdx + A.w * 2)
                        vA3 == vld1q_f32(ri, pA, aIdx + A.w * 3)
                        ra == TouchQ(TouchQ(TouchQ(TouchQ(ri, pA, aIdx), pA, aIdx + A.w),
                                     pA, aIdx + A.w * 2), pA, aIdx + A.w * 3)
                        LoopJ(rj, j) ==
                            LET bIdx == bIdxBase + j
                                vB0 == vld1q_f32(rj, pB, bIdx)
                                vB1 == vld1q_f32(rj, pB, bIdx + B.w)
                                vB2 == vld1q_f32(rj, pB, bIdx + B.w * 2)
                                vB3 == vld1q_f32(rj, pB, bIdx + B.w * 3)
                                rb == TouchQ(TouchQ(TouchQ(TouchQ(rj, pB, bIdx), pB, bIdx + B.w),
                                             pB, bIdx + B.w * 2), pB, bIdx + B.w * 3)
                                cIdx == cIdxBase + j
                                vC0(r) == vfmaq_laneq_f32(vfmaq_laneq_f32(vfmaq_laneq_f32(vfmaq_laneq_f32(
                                           vld1q_f32(r, pC, cIdx),
                                           vB0, vA0, 0), vB1, vA0, 1), vB2, vA0, 2), vB3, vA0, 3)
                                s0(r) == vst1q_f32(TouchQ(r, pC, cIdx), pC, cIdx, vC0(r))
                                vC1(r) == vfmaq_laneq_f32(vfmaq_laneq_f32(vfmaq_laneq_f32(vfmaq_laneq_f32(
                                           vld1q_f32(r, pC, cIdx + C.w),
                                           vB0, vA1, 0), vB1, vA1, 1), vB2, vA1, 2), vB3, vA1, 3)
                                s1(r) == vst1q_f32(TouchQ(r, pC, cIdx + C.w), pC, cIdx + C.w, vC1(r))
                                vC2(r) == vfmaq_laneq_f32(vfmaq_laneq_f32(vfmaq_laneq_f32(vfmaq_laneq_f32(
                                           vld1q_f32(r, pC, cIdx + C.w * 2),
                                           vB0, vA2, 0), vB1, vA2, 1), vB2, vA2, 2), vB3, vA2, 3)
                                s2(r) == vst1q_f32(TouchQ(r, pC, cIdx + C.w * 2), pC, cIdx + C.w * 2, vC2(r))
                                vC3(r) == vfmaq_laneq_f32(vfmaq_laneq_f32(vfmaq_laneq_f32(vfmaq_laneq_f32(
                                           vld1q_f32(r, pC, cIdx + C.w * 3),
                                           vB0, vA3, 0), vB1, vA3, 1), vB2, vA3, 2), vB3, vA3, 3)
                                s3(r) == vst1q_f32(TouchQ(r, pC, cIdx + C.w * 3), pC, cIdx + C.w * 3, vC3(r))
                            IN Stmts4(rb, s0, s1, s2, s3)
                    IN For(0, bWAlign, 4, LoopJ, ra)
            IN For(0, aHAlign, 4, LoopI, rk)
    IN IF ~chk.ret THEN Reject(m, chk)
       ELSE IF ARM_NEON THEN Return(For(0, aWAlign, 4, LoopK, Enter(m)))
       ELSE Return(Enter(m))

----------------------------------------------------------------------------
(* The kernels by name: Origin and the table of tests of main *)

Kernel(name, A, B, C, m) ==
    CASE name = "Origin" -> Origin(A, B, C, m)
      [] name = "Optimize1" -> Optimize1(A, B, C, m)
      [] name = "Optimize2" -> Optimize2(A, B, C, m)
      [] name = "Optimize3" -> Optimize3(A, B, C, m)
      [] name = "Optimize4" -> Optimize4(A, B, C, m)
      [] name = "Optimize5" -> Optimize5(A, B, C, m)
      [] name = "Optimize6" -> Optimize6(A, B, C, m)
      [] name = "Optimize7" -> Optimize7(A, B, C, m)
      [] name = "Optimize8" -> Optimize8(A, B, C, m)
      [] name = "Optimize9" -> Optimize9(A, B, C, m)
      [] name = "Optimize10" -> Optimize10(A, B, C, m)
      [] name = "Optimize11" -> Optimize11(A, B, C, m)
      [] name = "Optimize12" -> Optimize12(A, B, C, m)
      [] name = "Optimize13" -> Optimize13(A, B, C, m)
      [] name = "Optimize14" -> Optimize14(A, B, C, m)
      [] name = "Optimize15" -> Optimize15(A, B, C, m)
      [] name = "Optimize16" -> Optimize16(A, B, C, m)

----------------------------------------------------------------------------
(* Inputs *)

FillA(idx) == ((idx * idx + 3 * idx + 1) % 5) - 1
FillB(idx) == ((2 * idx * idx + idx + 2) % 7) - 2
FillC(idx) == (idx % 3) + 1

Buffer(n, F(_)) == [idx \in 0 .. (n - 1) |-> F(idx)]
Zero(idx) == 0

\* a valid triple over freshly filled inputs and a zeroed output
ValidInput(h, k, w) ==
    [a |-> Matrix(1, h, k), b |-> Matrix(2, k, w), c |-> Matrix(3, h, w),
     mem |-> << Buffer(h * k, FillA), Buffer(k * w, FillB), Buffer(h * w, Zero) >>]

\* a triple whose shapes agree or differ by one, each buffer present or null,
\* the output holding prior values
AnyInput(ah, aw, bw, dk, dh, dw, na, nb, nc) ==
    [a |-> Matrix(IF na THEN NULL ELSE 1, ah, aw),
     b |-> Matrix(IF nb THEN NULL ELSE 2, aw + dk, bw),
     c |-> Matrix(IF nc THEN NULL ELSE 3, ah + dh, bw + dw),
     mem |-> << Buffer(ah * aw, FillA), Buffer((aw + dk) * bw, FillB),
                Buffer((ah + dh) * (bw + dw), FillC) >>]

\* the worked example: A = [[1,2,3],[4,5,6]], B = [[7,8],[9,10],[11,12]]
ScenarioA(idx) == idx + 1
ScenarioB(idx) == idx + 7
ScenarioInput ==
    [a |-> Matrix(1, 2, 3), b |-> Matrix(2, 3, 2), c |-> Matrix(3, 2, 2),
     mem |-> << Buffer(6, ScenarioA), Buffer(6, ScenarioB), Buffer(4, Zero) >>]

\* further shapes: 8x8 * 8x8, 5x7 * 7x3, and 4x8 * 8x12 with unequal
\* multiples of 4
ExtraShapes == { <<8, 8, 8>>, <<5, 7, 3>>, <<4, 8, 12>> }

Inputs ==
    { ValidInput(h, k, w) : h \in 1 .. MaxDim, k \in 1 .. MaxDim, w \in 1 .. MaxDim }
    \cup { ValidInput(s[1], s[2], s[3]) : s \in ExtraShapes }
    \cup { AnyInput(ah, aw, bw, dk, dh, dw, na, nb, nc) :
             ah \in 1 .. MaxBadDim, aw \in 1 .. MaxBadDim, bw \in 1 .. MaxBadDim,
             dk \in 0 .. 1, dh \in 0 .. 1, dw \in 0 .. 1,
             na \in BOOLEAN, nb \in BOOLEAN, nc \in BOOLEAN }
    \cup { ScenarioInput }

----------------------------------------------------------------------------
(* State machine *)

\* the driver's state while no driver runs
NoDriver == [i |-> 0, tests |-> {}, ran |-> << >>, reports |-> << >>]

Init ==
    /\ ARM_NEON \in BOOLEAN
    /\ \E in \in Inputs :
        /\ a = in.a
        /\ b = in.b
        /\ c = in.c
        /\ mem = in.mem
        /\ pre = in.mem
    /\ last = "none"
    /\ ret = TRUE
    /\ log = << >>
    /\ trace = << >>
    /\ ub = FALSE
    /\ calls = 0
    /\ pc = "ready"
    /\ main = NoDriver
    /\ threads = << >>

\* the heaps a call may leave: an access outside a buffer is undefined
\* behaviour, and a store made outside one buffer lands either outside all
\* of them or on the first element of another
Outcomes(r) ==
    {r.mem} \cup
    UNION { { [r.mem EXCEPT ![p][0] = st[2]] :
                p \in {q \in DOMAIN r.mem : q # st[1] /\ 0 \in DOMAIN r.mem[q]} } :
            st \in r.stray }

\* one kernel call, run to its return; r is the kernel's run record.
\* After an out-of-bounds access the call either returns or crashes.
Call(name, r) ==
    /\ pc = "ready"
    /\ calls < MaxCalls
    /\ last \in {"none", name}
    /\ pre' = mem
    /\ mem' \in Outcomes(r)
    /\ last' = name
    /\ ret' = r.ret
    /\ log' = r.log
    /\ trace' = r.tr
    /\ ub' = r.oob
    /\ calls' = calls + 1
    /\ pc' \in IF r.oob THEN {"ready", "crashed"} ELSE {"ready"}
    /\ UNCHANGED <<ARM_NEON, a, b, c, main, threads>>

CallOrigin == Call("Origin", Origin(a, b, c, mem))

CallOptimize1 == Call("Optimize1", Optimize1(a, b, c, mem))

CallOptimize2 == Call("Optimize2", Optimize2(a, b, c, mem))

CallOptimize3 == Call("Optimize3", Optimize3(a, b, c, mem))

CallOptimize4 == Call("Optimize4", Optimize4(a, b, c, mem))

CallOptimize5 == Call("Optimize5", Optimize5(a, b, c, mem))

CallOptimize6 == Call("Optimize6", Optimize6(a, b, c, mem))

CallOptimize7 == Call("Optimize7", Optimize7(a, b, c, mem))

CallOptimize8 == Call("Optimize8", Optimize8(a, b, c, mem))

CallOptimize9 == Call("Optimize9", Optimize9(a, b, c, mem))

CallOptimize10 == Call("Optimize10", Optimize10(a, b, c, mem))

CallOptimize11 == Call("Optimize11", Optimize11(a, b, c, mem))

CallOptimize12 == Call("Optimize12", Optimize12(a, b, c, mem))

CallOptimize13 == Call("Optimize13", Optimize13(a, b, c, mem))

CallOptimize14 == Call("Optimize14", Optimize14(a, b, c, mem))

CallOptimize15 == Call("Optimize15", Optimize15(a, b, c, mem))

CallOptimize16 == Call("Optimize16", Optimize16(a, b, c, mem))

Next ==
    \/ CallOrigin
    \/ CallOptimize1
    \/ CallOptimize2
    \/ CallOptimize3
    \/ CallOptimize4
    \/ CallOptimize5
    \/ CallOptimize6
    \/ CallOptimize7
    \/ CallOptimize8
    \/ CallOptimize9
    \/ CallOptimize10
    \/ CallOptimize11
    \/ CallOptimize12
    \/ CallOptimize13
    \/ CallOptimize14
    \/ CallOptimize15
    \/ CallOptimize16

Spec == Init /\ [][Next]_vars

----------------------------------------------------------------------------
(* CheckResult on its own: a holds the first view, b the second, and the
   heap counts elements in units of EPSILON / 2 *)

Unit == 2 * EPSILON_INV

\* differences of 0, EPSILON / 2, EPSILON and 3 * EPSILON / 2, either sign
Deltas == {-3, -2, 0, 1, 2, 3}

FillX(idx) == ((5 * idx + 1) % 4) - 3

\* two views over buffers of their own size; the second buffer is the
\* first with d1 added at p1 and d2 added at p2 where the shapes agree
CheckInput(hx, wx, hy, wy, px, py, p1, d1, p2, d2) ==
    [a |-> Matrix(px, hx, wx), b |-> Matrix(py, hy, wy),
     mem |-> << Buffer(hx * wx, FillX),
                [idx \in 0 .. (hy * wy - 1) |->
                    FillX(idx) + (IF idx = p1 THEN d1 ELSE 0) + (IF idx = p2 THEN d2 ELSE 0)] >>]

CheckInputs ==
    \* equal shapes, each buffer present or null
    { CheckInput(h, w, h, w, px, py, p1, d1, p2, d2) :
        h \in 1 .. MaxCheckDim, w \in 1 .. MaxCheckDim, px \in {NULL, 1}, py \in {NULL, 2},
        p1 \in 0 .. (MaxCheckDim * MaxCheckDim - 1), d1 \in Deltas,
        p2 \in 0 .. (MaxCheckDim * MaxCheckDim - 1), d2 \in Deltas }
    \* any shapes, each buffer present or null
    \cup { CheckInput(hx, wx, hy, wy, px, py, 0, 0, 0, 0) :
        hx \in 1 .. MaxCheckDim, wx \in 1 .. MaxCheckDim,
        hy \in 1 .. MaxCheckDim, wy \in 1 .. MaxCheckDim,
        px \in {NULL, 1}, py \in {NULL, 2} }
    \* one view passed twice
    \cup { CheckInput(h, w, h, w, px, px, 0, 0, 0, 0) :
        h \in 1 .. MaxCheckDim, w \in 1 .. MaxCheckDim, px \in {NULL, 1} }

InitCheck ==
    /\ ARM_NEON \in BOOLEAN
    /\ \E in \in CheckInputs :
        /\ a = in.a
        /\ b = in.b
        /\ c = in.b
        /\ mem = in.mem
        /\ pre = in.mem
    /\ last = "none"
    /\ ret = TRUE
    /\ log = << >>
    /\ trace = << >>
    /\ ub = FALSE
    /\ calls = 0
    /\ pc = "ready"
    /\ main = NoDriver
    /\ threads = << >>

\* one call CheckResult(a, b), run to its return
CallCheckResult ==
    /\ pc = "ready"
    /\ calls < MaxCalls
    /\ LET r == CheckResultScaled(a, b, mem, Unit)
       IN  /\ ret' = r.ret
           /\ log' = r.log
           /\ trace' = r.tr
    /\ last' = "CheckResult"
    /\ pre' = mem
    /\ calls' = calls + 1
    /\ UNCHANGED <<ARM_NEON, mem, a, b, c, ub, pc, main, threads>>

NextCheck == CallCheckResult

SpecCheck == InitCheck /\ [][NextCheck]_vars

----------------------------------------------------------------------------
(* main in check mode: a is input1, b is input2, c is output2; the heap
   holds input1Data, input2Data, output1Data, output2Data *)

\* tests[n - 1].first
Tests ==
    << "Optimize1", "Optimize2", "Optimize3", "Optimize4", "Optimize5", "Optimize6",
       "Optimize7", "Optimize8", "Optimize9", "Optimize10", "Optimize11", "Optimize12",
       "Optimize13", "Optimize14", "Optimize15", "Optimize16" >>

\* the sets of tests whose flag tests[n - 1].second the options leave set:
\* all of them, none, one or two
Selections ==
    {DOMAIN Tests} \cup {sel \in SUBSET DOMAIN Tests : Cardinality(sel) <= 2}

\* static_cast<float>(rand()) / static_cast<float>(RAND_MAX), the extremes
Rand1(idx) == ((idx * idx) \div 2 + idx) % 2
Rand2(idx) == (idx \div 3 + idx) % 2

\* Matrix output1{output1Data, size, size}
output1 == Matrix(3, c.h, c.w)

InitMain ==
    /\ ARM_NEON \in BOOLEAN
    /\ \E size \in 1 .. MaxSize, sel \in Selections :
        /\ a = Matrix(1, size, size)
        /\ b = Matrix(2, size, size)
        /\ c = Matrix(4, size, size)
        /\ mem = << Buffer(size * size, Rand1), Buffer(size * size, Rand2),
                    Buffer(size * size, Zero), Buffer(size * size, Zero) >>
        /\ main = [i |-> 0, tests |-> sel, ran |-> << >>, reports |-> << >>]
    /\ pre = mem
    /\ last = "none"
    /\ ret = TRUE
    /\ log = << >>
    /\ trace = << >>
    /\ ub = FALSE
    /\ calls = 0
    /\ pc = "loop"
    /\ threads = << >>

\* if (!tests[i].second) continue;
MainSkip ==
    /\ pc = "loop"
    /\ main.i < Len(Tests)
    /\ (main.i + 1) \notin main.tests
    /\ main' = [main EXCEPT !.i = @ + 1]
    /\ UNCHANGED <<ARM_NEON, mem, a, b, c, pre, last, ret, log, trace, ub, calls, pc, threads>>

\* the two output vectors, value-initialised, and their views
MainFresh ==
    /\ pc = "loop"
    /\ main.i < Len(Tests)
    /\ (main.i + 1) \in main.tests
    /\ mem' = [mem EXCEPT ![3] = Buffer(c.h * c.w, Zero), ![4] = Buffer(c.h * c.w, Zero)]
    /\ pc' = "origin"
    /\ UNCHANGED <<ARM_NEON, a, b, c, pre, last, ret, log, trace, ub, calls, main, threads>>

\* a kernel call of the driver, run to its return or to a crash
MainCall(name, r, next) ==
    /\ pre' = mem
    /\ mem' \in Outcomes(r)
    /\ last' = name
    /\ ret' = r.ret
    /\ log' = r.log
    /\ trace' = r.tr
    /\ ub' = r.oob
    /\ main' = [main EXCEPT !.ran = Append(@, name)]
    /\ pc' \in IF r.oob THEN {next, "crashed"} ELSE {next}
    /\ UNCHANGED <<ARM_NEON, a, b, c, calls, threads>>

\* GeMM::Origin(input1, input2, output1);
MainOrigin ==
    /\ pc = "origin"
    /\ MainCall("Origin", Origin(a, b, output1, mem), "kernel")

\* tests[i].first(input1, input2, output2);
MainKernel ==
    /\ pc = "kernel"
    /\ MainCall(Tests[main.i + 1], Kernel(Tests[main.i + 1], a, b, c, mem), "check")

\* if (GeMM::CheckResult(output1, output2)) LOGI(passed) else LOGE(failed)
MainCheck ==
    /\ pc = "check"
    /\ LET r == CheckResult(output1, c, mem)
       IN  main' = [main EXCEPT
                !.reports = Append(@, <<main.i + 1, IF r.ret THEN "passed" ELSE "failed">>),
                !.i = @ + 1]
    /\ pc' = "loop"
    /\ UNCHANGED <<ARM_NEON, mem, a, b, c, pre, last, ret, log, trace, ub, calls, threads>>

\* return 0;
MainDone ==
    /\ pc = "loop"
    /\ main.i = Len(Tests)
    /\ pc' = "done"
    /\ UNCHANGED <<ARM_NEON, mem, a, b, c, pre, last, ret, log, trace, ub, calls, main, threads>>

NextMain ==
    \/ MainSkip
    \/ MainFresh
    \/ MainOrigin
    \/ MainKernel
    \/ MainCheck
    \/ MainDone

SpecMain == InitMain /\ [][NextMain]_vars

----------------------------------------------------------------------------
(* Two concurrent calls on one A and one B, each with an output of its own,
   interleaved at the element loads and stores.  A call's code is the
   sequence of its element accesses:
     <<"ld", reg, p, idx>>           reg = p[idx]
     <<"st", p, idx, rc, terms>>     p[idx] = rc + the sum of ra * rb over
                                     the pairs <<ra, rb>> of terms
   with the register arithmetic between a load and the store that uses it
   folded into the store.  Registers are <<kind, n, lane>>. *)

\* the concatenation of Body(v) for (v = lo; v < hi; v += step)
RECURSIVE Repeat(_, _, _, _)
Repeat(Body(_), lo, hi, step) ==
    IF lo < hi THEN Body(lo) \o Repeat(Body, lo + step, hi, step) ELSE << >>

\* float aN = pA[ai]
LoadA(n, pA, ai) == << <<"ld", <<"a", n, 0>>, pA, ai>> >>

\* pC[ci] += aN * pB[bi]
MulAddOps(pC, ci, n, pB, bi) ==
    << <<"ld", <<"b", 0, 0>>, pB, bi>>,
       <<"ld", <<"c", 0, 0>>, pC, ci>>,
       <<"st", pC, ci, <<"c", 0, 0>>, << << <<"a", n, 0>>, <<"b", 0, 0>> >> >> >> >>

\* float32x4_t vBn = vld1q_f32(pB + bi)
LoadQ(kind, n, p, idx) ==
    << <<"ld", <<kind, n, 0>>, p, idx>>, <<"ld", <<kind, n, 1>>, p, idx + 1>>,
       <<"ld", <<kind, n, 2>>, p, idx + 2>>, <<"ld", <<kind, n, 3>>, p, idx + 3>> >>

\* vC = vfmaq_f32(vC, vAn, vBn) for n < count; vst1q_f32(pC + ci, vC)
FmaStoreQ(pC, ci, count) ==
    [l \in 1 .. 4 |->
        <<"st", pC, ci + (l - 1), <<"vC", 0, l - 1>>,
          [n \in 1 .. count |-> << <<"a", n - 1, 0>>, <<"vB", n - 1, l - 1>> >>]>>]

Optimize1Program(A, B, C) ==
    IF ~CheckParam(A, B, C).ret THEN << >>
    ELSE
        LET LoopK(i, k) ==
                LET LoopJ(j) == MulAddOps(C.data, i * C.w + j, 0, B.data, k * B.w + j)
                IN  LoadA(0, A.data, i * A.w + k) \o Repeat(LoopJ, 0, B.w, 1)
            LoopI(i) ==
                LET Inner(k) == LoopK(i, k)
                IN  Repeat(Inner, 0, A.w, 1)
        IN  Repeat(LoopI, 0, A.h, 1)

Optimize10Program(A, B, C) ==
    IF ~CheckParam(A, B, C).ret THEN << >>
    ELSE
        LET j4 == IF ARM_NEON THEN After(0, AndNot3(B.w), 4) ELSE 0
            LoopI4(k, i) ==
                LET LoopJ4(j) ==
                        LoadQ("vB", 0, B.data, k * B.w + j)
                        \o LoadQ("vB", 1, B.data, (k + 1) * B.w + j)
                        \o LoadQ("vB", 2, B.data, (k + 2) * B.w + j)
                        \o LoadQ("vB", 3, B.data, (k + 3) * B.w + j)
                        \o LoadQ("vC", 0, C.data, i * C.w + j)
                        \o FmaStoreQ(C.data, i * C.w + j, 4)
                    LoopJ(j) ==
                        MulAddOps(C.data, i * C.w + j, 0, B.data, k * B.w + j)
                        \o MulAddOps(C.data, i * C.w + j + 1, 1, B.data, (k + 1) * B.w + j)
                        \o MulAddOps(C.data, i * C.w + j + 2, 2, B.data, (k + 2) * B.w + j)
                        \o MulAddOps(C.data, i * C.w + j + 3, 3, B.data, (k + 3) * B.w + j)
                IN  LoadA(0, A.data, i * A.w + k) \o LoadA(1, A.data, i * A.w + k + 1)
                    \o LoadA(2, A.data, i * A.w + k + 2) \o LoadA(3, A.data, i * A.w + k + 3)
                    \o (IF ARM_NEON THEN Repeat(LoopJ4, 0, AndNot3(B.w), 4) ELSE << >>)
                    \o Repeat(LoopJ, j4, B.w, 1)
            LoopK4(k) ==
                LET Inner(i) == LoopI4(k, i)
                IN  Repeat(Inner, 0, A.h, 1)
            LoopI1(k, i) ==
                LET LoopJ4(j) ==
                        LoadQ("vB", 0, B.data, k * B.w + j)
                        \o LoadQ("vC", 0, C.data, i * C.w + j)
                        \o FmaStoreQ(C.data, i * C.w + j, 1)
                    LoopJ(j) == MulAddOps(C.data, i * C.w + j, 0, B.data, k * B.w + j)
                IN  LoadA(0, A.data, i * A.w + k)
                    \o (IF ARM_NEON THEN Repeat(LoopJ4, 0, AndNot3(B.w), 4) ELSE << >>)
                    \o Repeat(LoopJ, j4, B.w, 1)
            LoopK1(k) ==
                LET Inner(i) == LoopI1(k, i)
                IN  Repeat(Inner, 0, A.h, 1)
        IN  Repeat(LoopK4, 0, AndNot3(A.w), 4)
            \o Repeat(LoopK1, After(0, AndNot3(A.w), 4), A.w, 1)

\* the kernels run concurrently
SharedKernels == {"Optimize1", "Optimize10"}

Program(name, A, B, C) ==
    CASE name = "Optimize1" -> Optimize1Program(A, B, C)
      [] name = "Optimize10" -> Optimize10Program(A, B, C)

Registers == {"a", "b", "c", "vB", "vC"} \X Lanes \X Lanes

\* the shapes h, k, w of the shared operands
ShareShapes == { <<1, 1, 1>>, <<2, 2, 2>>, <<1, 4, 1>>, <<2, 4, 1>>, <<1, 5, 2>>, <<1, 4, 4>> }

\* a call about to start, writing the output at pointer p
Thread(name, p) ==
    [kernel |-> name, c |-> Matrix(p, a.h, b.w),
     code |-> Program(name, a, b, Matrix(p, a.h, b.w)), ip |-> 0,
     regs |-> [reg \in Registers |-> 0]]

InitShare ==
    /\ ARM_NEON \in BOOLEAN
    /\ \E s \in ShareShapes :
        /\ a = Matrix(1, s[1], s[2])
        /\ b = Matrix(2, s[2], s[3])
        /\ c = Matrix(3, s[1], s[3])
        /\ mem = << Buffer(s[1] * s[2], FillA), Buffer(s[2] * s[3], FillB),
                    Buffer(s[1] * s[3], Zero), Buffer(s[1] * s[3], FillC) >>
    /\ pre = mem
    /\ \E k1 \in SharedKernels, k2 \in SharedKernels :
        threads = << Thread(k1, 3), Thread(k2, 4) >>
    /\ last = "none"
    /\ ret = TRUE
    /\ log = << >>
    /\ trace = << >>
    /\ ub = FALSE
    /\ calls = 0
    /\ pc = "running"
    /\ main = NoDriver

\* the next access of thread t
NextOp(t) == threads[t].code[threads[t].ip + 1]

Running(t) ==
    /\ pc = "running"
    /\ threads[t].ip < Len(threads[t].code)

\* the value a store writes
RECURSIVE SumTerms(_, _)
SumTerms(regs, terms) ==
    IF terms = << >> THEN 0
    ELSE regs[Head(terms)[1]] * regs[Head(terms)[2]] + SumTerms(regs, Tail(terms))

\* where a store of v outside the buffer at p may land: outside every
\* buffer, or on the first element of another one
Stray(m, p, v) ==
    {m} \cup { [m EXCEPT ![q][0] = v] : q \in {q \in DOMAIN m : q # p /\ 0 \in DOMAIN m[q]} }

\* thread t performs a load
ShareLoad(t) ==
    /\ Running(t)
    /\ NextOp(t)[1] = "ld"
    /\ LET op == NextOp(t)
           in == InBuf(mem, op[3], op[4])
       IN  /\ threads' = [threads EXCEPT ![t].ip = @ + 1,
                              ![t].regs[op[2]] = IF in THEN mem[op[3]][op[4]] ELSE 0]
           /\ ub' = (ub \/ ~in)
           /\ pc' \in IF in THEN {"running"} ELSE {"running", "crashed"}
    /\ UNCHANGED <<ARM_NEON, mem, a, b, c, pre, last, ret, log, trace, calls, main>>

\* thread t performs a store
ShareStore(t) ==
    /\ Running(t)
    /\ NextOp(t)[1] = "st"
    /\ LET op == NextOp(t)
           in == InBuf(mem, op[2], op[3])
           v  == threads[t].regs[op[4]] + SumTerms(threads[t].regs, op[5])
       IN  /\ mem' \in IF in THEN {[mem EXCEPT ![op[2]][op[3]] = v]} ELSE Stray(mem, op[2], v)
           /\ ub' = (ub \/ ~in)
           /\ pc' \in IF in THEN {"running"} ELSE {"running", "crashed"}
    /\ threads' = [threads EXCEPT ![t].ip = @ + 1]
    /\ UNCHANGED <<ARM_NEON, a, b, c, pre, last, ret, log, trace, calls, main>>

\* both calls have returned
ShareJoin ==
    /\ pc = "running"
    /\ \A t \in DOMAIN threads : ~Running(t)
    /\ pc' = "done"
    /\ UNCHANGED <<ARM_NEON, mem, a, b, c, pre, last, ret, log, trace, ub, calls, main, threads>>

NextShare ==
    \/ \E t \in {1, 2} : ShareLoad(t)
    \/ \E t \in {1, 2} : ShareStore(t)
    \/ ShareJoin

SpecShare == InitShare /\ [][NextShare]_vars

----------------------------------------------------------------------------
(* The product, as mathematics defines it *)

\* the triple satisfies every precondition of a multiply
Valid(A, B, C) ==
    /\ A.w = B.h
    /\ A.h = C.h
    /\ B.w = C.w
    /\ A.data # NULL
    /\ B.data # NULL
    /\ C.data # NULL

\* sum over k' < k of A[i,k'] * B[k',j] in heap m
RECURSIVE Dot(_, _, _, _, _, _)
Dot(m, A, B, i, j, k) ==
    IF k = 0 THEN 0
    ELSE Dot(m, A, B, i, j, k - 1) + m[A.data][i * A.w + (k - 1)] * m[B.data][(k - 1) * B.w + j]

\* the buffer P + A*B, P the contents of C in heap m
Accumulated(m, A, B, C) ==
    [idx \in DOMAIN m[C.data] |->
        m[C.data][idx] + Dot(m, A, B, idx \div C.w, idx % C.w, A.w)]

IsZero(buf) == \A idx \in DOMAIN buf : buf[idx] = 0

\* what Origin leaves in C when run on the operands of the last call
OriginResult == Origin(a, b, c, pre).mem[c.data]

\* CheckResult(C0, C1) of two output buffers of the shape of c
Agree(C0, C1) == CheckResult(Matrix(1, c.h, c.w), Matrix(2, c.h, c.w), << C0, C1 >>).ret

----------------------------------------------------------------------------
(* Claims *)

\* the multiply-adds of an Origin call: its trace in groups of
\* load A, load B, load C, store C
OriginGroups ==
    { << trace[4 * n + 1], trace[4 * n + 2], trace[4 * n + 3], trace[4 * n + 4] >> :
        n \in 0 .. ((Len(trace) \div 4) - 1) }

\* one group for each (i, j, k)
AllGroups ==
    { << <<"ld", a.data, i * a.w + k>>, <<"ld", b.data, k * b.w + j>>,
         <<"ld", c.data, i * c.w + j>>, <<"st", c.data, i * c.w + j>> >> :
        i \in 0 .. (a.h - 1), j \in 0 .. (b.w - 1), k \in 0 .. (a.w - 1) }

\* C1: after Origin returns on a valid triple, every C[i,j] is its value
\* before the call plus the sum over k of A[i,k]*B[k,j], and the call made
\* exactly one multiply-add for each (i,j,k).
C1_OriginAccumulatesProduct ==
    (last = "Origin" /\ Valid(a, b, c)) =>
        /\ pc = "ready"
        /\ mem[c.data] = Accumulated(pre, a, b, c)
        /\ Len(trace) = 4 * a.h * b.w * a.w
        /\ OriginGroups = AllGroups

C1_Witness ==
    /\ last = "Origin"
    /\ Valid(a, b, c)
    /\ a.h >= 2 /\ a.w >= 2 /\ b.w >= 2
    /\ calls = 2
    /\ mem[c.data] # pre[c.data]

\* C2: on a valid triple and a zeroed output, Optimize1 and Optimize2 leave
\* C element-for-element equal to what Origin leaves, and CheckResult of
\* the two outputs is true.
C2_LoopOrderEquivalence ==
    (last \in {"Optimize1", "Optimize2"} /\ Valid(a, b, c) /\ IsZero(pre[c.data])) =>
        /\ pc = "ready"
        /\ mem[c.data] = OriginResult
        /\ Agree(OriginResult, mem[c.data])

C2_Witness ==
    /\ last = "Optimize2"
    /\ Valid(a, b, c)
    /\ IsZero(pre[c.data])
    /\ a.h >= 2 /\ a.w >= 2 /\ b.w >= 2
    /\ ~IsZero(mem[c.data])

\* C3: on every valid triple, also with A.w or B.w not a multiple of 4,
\* Optimize3, Optimize4, Optimize7 and Optimize8 leave the same C as Origin.
C3_UnrolledRemainder ==
    (last \in {"Optimize3", "Optimize4", "Optimize7", "Optimize8"} /\ Valid(a, b, c)) =>
        /\ pc = "ready"
        /\ mem[c.data] = OriginResult

C3_Witness ==
    /\ last = "Optimize8"
    /\ Valid(a, b, c)
    /\ a.w > 4 /\ a.w % 4 # 0
    /\ b.w > 4 /\ b.w % 4 # 0
    /\ mem[c.data] # pre[c.data]

\* C4: on every valid triple, also with A.w or B.w not a multiple of 4,
\* Optimize5, Optimize6 and Optimize9 leave the same C as Origin.
C4_SimdRemainder ==
    (last \in {"Optimize5", "Optimize6", "Optimize9"} /\ Valid(a, b, c)) =>
        /\ pc = "ready"
        /\ mem[c.data] = OriginResult

C4_Witness ==
    /\ last = "Optimize9"
    /\ ARM_NEON
    /\ Valid(a, b, c)
    /\ a.w > 4 /\ a.w % 4 # 0
    /\ b.w > 4 /\ b.w % 4 # 0
    /\ mem[c.data] # pre[c.data]

\* the kernels written for dimensions that are multiples of 4
Aligned ==
    {"Optimize11", "Optimize12", "Optimize13", "Optimize14", "Optimize15", "Optimize16"}

\* a.h, a.w and b.w are all multiples of 4
AllMultiplesOf4 == a.h % 4 = 0 /\ a.w % 4 = 0 /\ b.w % 4 = 0

\* C5: on every valid triple Optimize10 leaves the same C as Origin and as
\* Optimize9, its scalar j tail adding all four products into C[i,j].
C5_Optimize10Equivalence ==
    (last = "Optimize10" /\ Valid(a, b, c) /\ pc = "ready") =>
        /\ mem[c.data] = OriginResult
        /\ mem[c.data] = Optimize9(a, b, c, pre).mem[c.data]

\* C6 as stated: with a.h, a.w and b.w multiples of 4 and a zeroed output,
\* Optimize11 .. Optimize16 leave the same C as Origin.
C6_AlignedEquivalence ==
    (last \in Aligned /\ Valid(a, b, c) /\ AllMultiplesOf4 /\ IsZero(pre[c.data])) =>
        /\ pc = "ready"
        /\ mem[c.data] = OriginResult

\* C6 as amended: in a build that defines __ARM_NEON, with a.h, a.w and b.w
\* multiples of 4 and a zeroed output, Optimize11 .. Optimize16 leave the
\* same C as Origin.
C6_AlignedEquivalenceNeon ==
    (ARM_NEON /\ last \in Aligned /\ Valid(a, b, c) /\ AllMultiplesOf4
        /\ IsZero(pre[c.data])) =>
        /\ pc = "ready"
        /\ mem[c.data] = OriginResult

C6_Witness ==
    /\ ARM_NEON
    /\ last = "Optimize16"
    /\ Valid(a, b, c)
    /\ a.h = 4 /\ a.w = 8 /\ b.w = 12
    /\ IsZero(pre[c.data])
    /\ ~IsZero(mem[c.data])

\* the last call was the first call on the worked example
OnScenario == a = ScenarioInput.a /\ b = ScenarioInput.b /\ c = ScenarioInput.c
                /\ pre = ScenarioInput.mem /\ last # "none"

\* [[58,64],[139,154]]
ScenarioC == (0 :> 58) @@ (1 :> 64) @@ (2 :> 139) @@ (3 :> 154)

\* C7 as stated: on the worked example every one of the 17 kernels leaves
\* C = [[58,64],[139,154]].
C7_ScenarioAllKernels ==
    OnScenario => mem[c.data] = ScenarioC

\* C7 as amended: on the worked example Origin and Optimize1 .. Optimize10
\* leave C = [[58,64],[139,154]]; Optimize11 .. Optimize16 leave C all zero.
C7_ScenarioByKernel ==
    OnScenario =>
        /\ pc = "ready"
        /\ last \notin Aligned => mem[c.data] = ScenarioC
        /\ last \in Aligned => IsZero(mem[c.data])

C7_Witness ==
    /\ OnScenario
    /\ last = "Optimize10"
    /\ mem[c.data] = ScenarioC

\* C8: every kernel, on every valid triple inside its dimension
\* precondition, leaves C = P + A*B for the prior contents P of C; and a
\* second call of the same kernel on an output that was zero leaves twice
\* the result of the first.
C8_AccumulateNotOverwrite ==
    (last # "none" /\ Valid(a, b, c) /\ pc = "ready"
        /\ (last \in Aligned => AllMultiplesOf4)) =>
        /\ mem[c.data] = Accumulated(pre, a, b, c)
        /\ (calls = 2 /\ pre[c.data] =
                Kernel(last, a, b, c, [pre EXCEPT ![c.data] = [idx \in DOMAIN @ |-> 0]]).mem[c.data])
            => mem[c.data] = [idx \in DOMAIN pre[c.data] |-> 2 * pre[c.data][idx]]

\* C9: a call of any kernel on a triple that fails a shape comparison or
\* has a null buffer returns without loading or storing any element, and
\* leaves every buffer as it was.
C9_ValidationShortCircuit ==
    (last # "none" /\ ~Valid(a, b, c)) =>
        /\ pc = "ready"
        /\ trace = << >>
        /\ ~ub
        /\ mem = pre

C9_Witness ==
    /\ last = "Optimize10"
    /\ a.w # b.h
    /\ c.data # NULL
    /\ ~IsZero(mem[c.data])
    /\ calls = 2

\* C10: in every call CheckParam returns true exactly when a.w = b.h,
\* a.h = c.h, b.w = c.w and the three buffers are non-null; the views are
\* never changed, and no buffer is changed by a call in which it returned
\* false, nor by a call in which it was the only code to run (an aligned
\* kernel built without __ARM_NEON).
C10_CheckParamIff ==
    [][ /\ ret' = Valid(a, b, c)
        /\ a' = a /\ b' = b /\ c' = c
        /\ ~ret' => mem' = mem
        /\ (~ARM_NEON /\ last' \in Aligned) => mem' = mem ]_vars

C10_Witness ==
    /\ last # "none"
    /\ ~ret
    /\ a.w = b.h /\ a.h = c.h /\ b.w = c.w
    /\ a.data # NULL /\ b.data # NULL /\ c.data = NULL

\* C11: a call whose CheckParam fails emits exactly one report, that of the
\* first violated condition in the order a.w vs b.h, a.h vs c.h, b.w vs c.w,
\* null buffers, with the offending values; a call whose CheckParam passes
\* emits none.
C11_OneReportFirstViolation ==
    last # "none" =>
        /\ Valid(a, b, c) => log = << >>
        /\ ~Valid(a, b, c) => Len(log) = 1
        /\ a.w # b.h => log = << <<"A.w != B.h", a.w, b.h>> >>
        /\ (a.w = b.h /\ a.h # c.h) => log = << <<"C.h != A.h", c.h, a.h>> >>
        /\ (a.w = b.h /\ a.h = c.h /\ b.w # c.w) => log = << <<"C.w != B.w", c.w, b.w>> >>
        /\ (a.w = b.h /\ a.h = c.h /\ b.w = c.w
                /\ (a.data = NULL \/ b.data = NULL \/ c.data = NULL))
            => log = << <<"null", a.data, b.data, c.data>> >>

C11_Witness ==
    /\ last # "none"
    /\ a.w # b.h /\ a.h # c.h /\ b.w # c.w /\ c.data = NULL
    /\ log = << <<"A.w != B.h", a.w, b.h>> >>

\* C12 as stated: CheckResult(X, X) returns true for any view X.
C12_CheckResultReflexive ==
    (last = "CheckResult" /\ a = b) => ret

\* C12 as amended: CheckResult(X, X) returns true for any view X whose
\* buffer is present, and false when X.data is null.
C12_CheckResultReflexivePresent ==
    (last = "CheckResult" /\ a = b) => (ret <=> a.data # NULL)

C12_Witness ==
    /\ last = "CheckResult"
    /\ a = b
    /\ a.data # NULL
    /\ a.h = 2 /\ a.w = 2
    /\ ret

\* EPSILON in the units of the heap handed to CheckResult
EpsilonUnits == Unit \div EPSILON_INV

\* the two views have one shape and both buffers
Comparable == a.w = b.w /\ a.h = b.h /\ a.data # NULL /\ b.data # NULL

\* the positions of the views, row-major
Positions == 0 .. (a.h * a.w - 1)

\* |a[idx] - b[idx]|
Difference(idx) == Abs(mem[a.data][idx] - mem[b.data][idx])

\* C13: for views of one shape with both buffers present, CheckResult
\* returns false when some pair of same-position elements differs by more
\* than EPSILON and true when every pair differs by at most EPSILON.
C13_ToleranceBoundary ==
    (last = "CheckResult" /\ Comparable) =>
        /\ (\E idx \in Positions : Difference(idx) > EpsilonUnits) => ~ret
        /\ (\A idx \in Positions : Difference(idx) <= EpsilonUnits) => ret

C13_Witness ==
    /\ last = "CheckResult"
    /\ Comparable
    /\ a.data # b.data
    /\ \E idx \in Positions : Difference(idx) = EpsilonUnits
    /\ \A idx \in Positions : Difference(idx) <= EpsilonUnits
    /\ ret

\* the first position, row-major, whose elements differ by more than EPSILON
FirstMismatch ==
    CHOOSE idx \in Positions :
        /\ Difference(idx) > EpsilonUnits
        /\ \A before \in 0 .. (idx - 1) : Difference(before) <= EpsilonUnits

\* the loads of a scan of positions 0 .. n - 1
RECURSIVE Scan(_)
Scan(n) ==
    IF n = 0 THEN << >>
    ELSE Scan(n - 1) \o << <<"ld", a.data, n - 1>>, <<"ld", b.data, n - 1>> >>

\* what a returned call of CheckResult leaves: on differing widths, on
\* differing heights, or on an absent buffer it returns false having loaded
\* no element; every failure emits exactly one report, that of the first
\* violation (widths, heights, buffers, then elements row-major, with the
\* indices and values of the first mismatching pair, no element after it
\* being loaded); a pass emits none
C14_Report ==
    last = "CheckResult" =>
        /\ ret => log = << >>
        /\ ~ret => Len(log) = 1
        /\ a.w # b.w =>
            ~ret /\ trace = << >> /\ log = << <<"A.w != B.w", a.w, b.w>> >>
        /\ (a.w = b.w /\ a.h # b.h) =>
            ~ret /\ trace = << >> /\ log = << <<"A.h != B.h", a.h, b.h>> >>
        /\ (a.w = b.w /\ a.h = b.h /\ (a.data = NULL \/ b.data = NULL)) =>
            ~ret /\ trace = << >> /\ log = << <<"null", a.data, b.data>> >>
        /\ (Comparable /\ ~ret) =>
            /\ log = << <<"A[i][j] != B[i][j]", FirstMismatch \div a.w, FirstMismatch % a.w,
                          mem[a.data][FirstMismatch], mem[b.data][FirstMismatch]>> >>
            /\ trace = Scan(FirstMismatch + 1)
        /\ (Comparable /\ ret) => trace = Scan(a.h * a.w)

\* C14: CheckResult returns false on differing widths, differing heights or
\* an absent buffer without comparing any element, emits exactly one report
\* on any failure, that of the first violation, and never modifies either
\* view or its buffer.
C14_CheckResultErrors ==
    [][ /\ C14_Report'
        /\ a' = a /\ b' = b
        /\ mem' = mem ]_vars

C14_Witness ==
    /\ last = "CheckResult"
    /\ Comparable
    /\ a.h = 2 /\ a.w = 2
    /\ Cardinality({idx \in Positions : Difference(idx) > EpsilonUnits}) = 2
    /\ Difference(0) <= EpsilonUnits
    /\ ~ret
    /\ log[1][2] = 1

\* C15: in every kernel call that returns, valid or not, the h, w and data
\* fields of the three views and the element contents of A and B are the
\* same after the call as before it; only elements of C may change.
C15_InputsReadOnly ==
    [][ pc' = "ready" =>
            /\ a' = a /\ b' = b /\ c' = c
            /\ a.data # NULL => mem'[a.data] = mem[a.data]
            /\ b.data # NULL => mem'[b.data] = mem[b.data] ]_vars

\* C16: every kernel call that was entered has reached its return, either
\* the early return of a failed validation, before any element access, or
\* the normal return after all loops; there is no other way out of a call.
C16_EveryCallReturns ==
    last # "none" =>
        /\ pc = "ready"
        /\ Valid(a, b, c) => ret
        /\ ~Valid(a, b, c) => ~ret /\ trace = << >>

\* the selected tests among the first n, in index order
RECURSIVE SelectedUpTo(_)
SelectedUpTo(n) ==
    IF n = 0 THEN << >>
    ELSE IF n \in main.tests THEN Append(SelectedUpTo(n - 1), n)
    ELSE SelectedUpTo(n - 1)

\* Origin and then the kernel, for each of the tests listed
RECURSIVE CallsFor(_)
CallsFor(sel) ==
    IF sel = << >> THEN << >>
    ELSE << "Origin", Tests[Head(sel)] >> \o CallsFor(Tail(sel))

\* C18: in check mode the driver goes through the tests in index order; for
\* each selected one it runs Origin and then that kernel on two freshly
\* zeroed output buffers of one shape and reports exactly one pass or fail;
\* it never runs an unselected kernel, and no check stops the driver before
\* the checks of the later selected kernels.
C18_CheckModeIndependence ==
    /\ pc # "crashed"
    /\ pc = "origin" => IsZero(mem[output1.data]) /\ IsZero(mem[c.data])
    /\ pc \in {"loop", "done"} =>
        /\ main.ran = CallsFor(SelectedUpTo(main.i))
        /\ Len(main.reports) = Len(SelectedUpTo(main.i))
        /\ \A n \in DOMAIN main.reports :
            /\ main.reports[n][1] = SelectedUpTo(main.i)[n]
            /\ main.reports[n][2] \in {"passed", "failed"}
    /\ pc = "done" => main.i = Len(Tests)

\* what the call of thread t leaves in its output when it runs alone
AloneResult(t) ==
    Kernel(threads[t].kernel, a, b, threads[t].c, pre).mem[threads[t].c.data]

\* C17: when two kernel calls have run concurrently on the same A and B
\* with disjoint outputs, under any interleaving of their element loads and
\* stores, both have returned and each call's output holds what the call
\* produces when run alone.
C17_SharedInputs ==
    /\ pc # "crashed"
    /\ pc = "done" => \A t \in DOMAIN threads : mem[threads[t].c.data] = AloneResult(t)

\* the positions of the stores in the trace of the last call
StorePositions == {n \in DOMAIN trace : trace[n][1] = "st"}

\* the position in the trace of the n-th store, counted from 0: Origin
\* loads A, B and C before each store; Optimize1 and Optimize2 load A once
\* before each inner loop and B and C before each store
NthStore(n) ==
    IF last = "Origin" THEN 4 * n + 4
    ELSE (n \div b.w) * (1 + 3 * b.w) + 1 + 3 * (n % b.w) + 3

\* the update made by the store at position p of the trace, as <<i, j, k>>:
\* the store is into C[i,j] and the load of B two accesses before it, the
\* load of C being between them, is of B[k,j]
UpdateAt(p) == << trace[p][3] \div c.w, trace[p][3] % c.w, trace[p - 2][3] \div b.w >>

\* the n-th triple, counted from 0, of the lexicographic order whose
\* slowest index ranges over 0 .. d1 - 1 and fastest over 0 .. d3 - 1
Lex(n, d2, d3) == << n \div (d2 * d3), (n \div d3) % d2, n % d3 >>

\* C19: Origin makes its updates of C in lexicographic (i, j, k) order,
\* Optimize1 in (i, k, j) order and Optimize2 in (k, i, j) order, one update
\* for each triple; in Optimize1 and Optimize2 an update whose j is not the
\* last is followed by the update of the next element of the same rows of
\* B and C.
C19_IterationOrder ==
    (last \in {"Origin", "Optimize1", "Optimize2"} /\ Valid(a, b, c)) =>
        /\ StorePositions = {NthStore(n) : n \in 0 .. (a.h * a.w * b.w - 1)}
        /\ \A n \in 0 .. (a.h * a.w * b.w - 1) :
            LET u == UpdateAt(NthStore(n))
            IN  CASE last = "Origin" ->
                        << u[1], u[2], u[3] >> = Lex(n, b.w, a.w)
                  [] last = "Optimize1" ->
                        << u[1], u[3], u[2] >> = Lex(n, a.w, b.w)
                  [] last = "Optimize2" ->
                        << u[3], u[1], u[2] >> = Lex(n, a.h, b.w)
        /\ last # "Origin" =>
            \A n \in 0 .. (a.h * a.w * b.w - 2) :
                LET p == NthStore(n)
                    q == NthStore(n + 1)
                IN  UpdateAt(p)[2] < b.w - 1 =>
                        /\ trace[q] = <<"st", c.data, trace[p][3] + 1>>
                        /\ trace[q - 2] = <<"ld", b.data, trace[p - 2][3] + 1>>

C19_Witness ==
    /\ last = "Optimize2"
    /\ Valid(a, b, c)
    /\ a.h = 2 /\ a.w = 3 /\ b.w = 2
    /\ UpdateAt(NthStore(2)) = <<1, 0, 0>>

\* the register-blocked kernels
Blocked == {"Optimize13", "Optimize14", "Optimize15", "Optimize16"}

\* C20: on every valid triple, with dimensions multiples of 4 or not and
\* whatever C held, Optimize13, Optimize14, Optimize15 and Optimize16 leave
\* the same C; Optimize15 makes the same element accesses in the same order
\* as Optimize13, and Optimize16 as Optimize14.
C20_BlockedInterchangeable ==
    (last \in Blocked /\ Valid(a, b, c)) =>
        /\ pc = "ready"
        /\ \A name \in Blocked : Kernel(name, a, b, c, pre).mem[c.data] = mem[c.data]
        /\ last = "Optimize15" => trace = Optimize13(a, b, c, pre).tr
        /\ last = "Optimize16" => trace = Optimize14(a, b, c, pre).tr

C20_Witness ==
    /\ ARM_NEON
    /\ last = "Optimize15"
    /\ Valid(a, b, c)
    /\ a.h = 8 /\ a.w = 8 /\ b.w = 8
    /\ calls = 2
    /\ ~IsZero(pre[c.data])
    /\ mem[c.data] # pre[c.data]
    /\ trace # Optimize14(a, b, c, pre).tr

\* C21: on every valid triple, whatever the dimensions, every element a
\* kernel reads from A, from B or from C and every element it writes lies
\* inside that matrix's buffer of h * w elements, and only C is written.
C21_MemorySafety ==
    (last # "none" /\ Valid(a, b, c)) =>
        /\ ~ub
        /\ \A n \in DOMAIN trace :
            /\ trace[n][2] \in {a.data, b.data, c.data}
            /\ trace[n][2] = a.data => trace[n][3] \in 0 .. (a.h * a.w - 1)
            /\ trace[n][2] = b.data => trace[n][3] \in 0 .. (b.h * b.w - 1)
            /\ trace[n][2] = c.data => trace[n][3] \in 0 .. (c.h * c.w - 1)
            /\ trace[n][1] = "st" => trace[n][2] = c.data

\* the value the aligned kernels leave in element idx of C: the partial sum
\* over k < A.w & ~3 added for the columns j < B.w & ~3, in every row for
\* Optimize11 and Optimize12 and in the rows i < A.h & ~3 for the tiled kernels
TruncatedProduct ==
    [idx \in DOMAIN pre[c.data] |->
        IF /\ idx % c.w < AndNot3(b.w)
           /\ idx \div c.w < (IF last \in Blocked THEN AndNot3(a.h) ELSE a.h)
        THEN pre[c.data][idx] + Dot(pre, a, b, idx \div c.w, idx % c.w, AndNot3(a.w))
        ELSE pre[c.data][idx]]

\* C22 as stated: on a valid triple whose dimensions are not all multiples
\* of 4, Optimize11..Optimize16 add exactly the truncated partial sums to C
\* and leave every other element unchanged, whatever the build.
C22_TruncatedProduct ==
    (last \in Aligned /\ Valid(a, b, c) /\ ~AllMultiplesOf4) =>
        /\ pc = "ready"
        /\ mem[c.data] = TruncatedProduct

\* C22 amended: the same in a build that defines __ARM_NEON.
C22_TruncatedProductNeon ==
    (ARM_NEON /\ last \in Aligned /\ Valid(a, b, c) /\ ~AllMultiplesOf4) =>
        /\ pc = "ready"
        /\ ~ub
        /\ mem[c.data] = TruncatedProduct

\* a tiled kernel has run on a 5x5 by 5x5 product: the 4x4 corner of C got
\* the sums over k < 4, the last row and column stayed, and the result is
\* not the full product
C22_Witness ==
    /\ ARM_NEON
    /\ last = "Optimize13"
    /\ Valid(a, b, c)
    /\ a.h = 5 /\ a.w = 5 /\ b.w = 5
    /\ mem[c.data] # pre[c.data]
    /\ mem[c.data] # OriginResult
    /\ \A idx \in DOMAIN mem[c.data] :
        (idx % 5 = 4 \/ idx \div 5 = 4) => mem[c.data][idx] = pre[c.data][idx]

\* C23: in a build without __ARM_NEON, on every valid input, Optimize11 ..
\* Optimize16 return with C exactly as it was before the call, while
\* Optimize5, Optimize6 and Optimize9 leave in C what Origin leaves there.
C23_WithoutVectorTarget ==
    (~ARM_NEON /\ last # "none" /\ Valid(a, b, c)) =>
        /\ last \in Aligned =>
            /\ pc = "ready"
            /\ ~ub
            /\ ret
            /\ mem[c.data] = pre[c.data]
        /\ last \in {"Optimize5", "Optimize6", "Optimize9"} =>
            /\ pc = "ready"
            /\ ~ub
            /\ mem[c.data] = OriginResult

\* without __ARM_NEON a tiled kernel has returned from a product whose
\* dimensions are all multiples of 4 with C untouched, where Origin would
\* have changed it
C23_Witness ==
    /\ ~ARM_NEON
    /\ last = "Optimize14"
    /\ Valid(a, b, c)
    /\ AllMultiplesOf4
    /\ ret
    /\ mem[c.data] = pre[c.data]
    /\ OriginResult # pre[c.data]

====
